---- MODULE Spec2Model ----
(***************************************************************************)
(* A model of the kgroups core: the DKG engine, the threshold signing      *)
(* engine and key-share refresh of @nkg/signer, and the capability model   *)
(* of @nkg/cap.                                                            *)
(*                                                                         *)
(* Curve arithmetic.  secp256k1 is replaced by a group of small prime      *)
(* order CURVE_ORDER.  A point is represented by its discrete logarithm    *)
(* to the base G, so G is 1, point addition is addition mod CURVE_ORDER    *)
(* and scalar multiplication is multiplication mod CURVE_ORDER.  Every     *)
(* verification equation of the code is an equation between points and     *)
(* holds in the model exactly when it holds in the group.  The x-only      *)
(* parity normalisation of BIP-340 has no counterpart in this              *)
(* representation and is left out.                                         *)
(***************************************************************************)
EXTENDS Integers, Sequences, FiniteSets, TLC

\* ------------------------------------------------------------------ bounds

\* The largest number of DKG participants / share holders explored.
MaxSigners == 3

\* The number of random draws explored: a run's draw fixes the scalars every
\* participant samples in it.
MaxDraws == 2

\* The number of times the holders refresh their shares.
MaxRefreshes == 2

\* The number of capabilities in a list passed to checkAuthorization.
MaxCaps == 2

\* The latest time the clock shows.
MaxTime == 3

\* ------------------------------------------------------- scalars and points

\* The order of the group (signing.ts CURVE_ORDER), scaled down to a prime
\* that leaves every participant index non-zero and distinct.
CURVE_ORDER == 13

\* The number of values of a 32-byte hex string, scaled to the group order.
HexSpace == 16

mod_n(x) == x % CURVE_ORDER

\* G.multiply(k) as the discrete logarithm of the result.
PointMul(k) == mod_n(k)

PointAdd(a, b) == mod_n(a + b)

\* a * P for a point P.
PointScale(a, P) == mod_n(a * P)

\* The inverse of a non-zero scalar.
invert(a) == CHOOSE b \in 1..(CURVE_ORDER - 1) : mod_n(mod_n(a) * b) = 1

None == << >>

Some(x) == << x >>

EmptyMap == [k \in {} |-> 0]

\* Map.prototype.set on a copy of the map.
MapSet(m, k, v) == [x \in DOMAIN m \cup {k} |-> IF x = k THEN v ELSE m[x]]

\* Map.prototype.size
MapSize(m) == Cardinality(DOMAIN m)

RECURSIVE SumOver(_, _)
\* The sum of f[x] over the finite set S (f a function on S).
SumOver(S, f) ==
  IF S = {} THEN 0
  ELSE LET x == CHOOSE y \in S : TRUE IN f[x] + SumOver(S \ {x}, f)

RECURSIVE ProdOver(_, _)
ProdOver(S, f) ==
  IF S = {} THEN 1
  ELSE LET x == CHOOSE y \in S : TRUE IN mod_n(f[x] * ProdOver(S \ {x}, f))

\* ------------------------------------------------------------ DKG helpers

RECURSIVE PolyLoop(_, _, _, _, _)
\* The loop of evaluatePolynomial: k is the position of the next coefficient.
PolyLoop(coefficients, x, k, result, xPower) ==
  IF k > Len(coefficients) THEN result
  ELSE PolyLoop(coefficients, x, k + 1,
                mod_n(result + coefficients[k] * xPower), mod_n(xPower * x))

evaluatePolynomial(coefficients, x) == PolyLoop(coefficients, x, 1, 0, 1)

\* n.toString(16).padStart(64, "0").slice(-64): the low 32 bytes of n.
bigintToHex(n) == n % HexSpace

\* BigInt("0x" + hex)
hexToBigint(h) == h

\* Lib.get_share_commits: one point per coefficient.
get_share_commits(coefficients) ==
  [k \in 1..Len(coefficients) |-> PointMul(coefficients[k])]

\* merge_share_commits: point addition, position by position.
merge_share_commits(a, b) == [k \in 1..Len(a) |-> PointAdd(a[k], b[k])]

\* The point the committed polynomial takes at idx: sum of commits[k] * idx^(k-1).
CommitEval(commits, idx, threshold) ==
  mod_n(SumOver(1..threshold,
        [k \in 1..threshold |-> mod_n(commits[k] * evaluatePolynomial(
            [j \in 1..k |-> IF j = k THEN 1 ELSE 0], idx))]))

\* Lib.verify_share(commits, share, threshold)
verify_share(commits, share, threshold) ==
  /\ Len(commits) >= threshold
  /\ PointMul(hexToBigint(share.seckey)) = CommitEval(commits, share.idx, threshold)

\* A combination of the shares that weighs every signer alike.
interpolate_root_unweighted(L, x) == 1

\* Lagrange coefficient at 0 of index x among the indices L (interpolate_root).
interpolate_root(L, x) ==
  mod_n(ProdOver(L \ {x}, [j \in L \ {x} |-> mod_n(j * invert(mod_n(j - x + CURVE_ORDER)))]))

\* The nostr secret key of participant i and the sorted participants list.
SecretKeyOf(i) == i + 1

ParticipantPubkey(i) == PointMul(SecretKeyOf(i))

\* nip44.v2.utils.getConversationKey(secretKey, pubkey): the ECDH point.
getConversationKey(seckey, pubkey) == PointScale(seckey, pubkey)

\* nip44.v2.encrypt / decrypt: the payload opens only under the key that sealed it.
nip44_encrypt(plain, key) == [key |-> key, payload |-> plain]

\* None stands for the exception decrypt throws on a wrong key or a changed payload.
nip44_decrypt(ct, key) == IF ct.key = key THEN Some(ct.payload) ELSE None

\* The t non-zero coefficients participant p samples under draw d.
DrawCoefficients(p, d, t) ==
  [k \in 1..t |-> ((3 * p + 5 * d + 2 * k + p * d * k) % (CURVE_ORDER - 1)) + 1]

\* -------------------------------------------------------- signing helpers

\* A secret share's public key.
get_pubkey(seckey) == PointMul(hexToBigint(seckey))

RECURSIVE EncodeNonces(_, _, _)
\* The serialisation of the public nonces that the binding-factor hash reads,
\* folded from position k on.
EncodeNonces(pnonces, k, acc) ==
  IF k > Len(pnonces) THEN acc
  ELSE EncodeNonces(pnonces, k + 1,
         (acc * 31 + pnonces[k].idx * 17 + pnonces[k].hidden_pn * 5
            + pnonces[k].binder_pn * 3 + 1) % 997)

\* The tagged hashes, as fixed functions onto the non-zero scalars.
HashRho(idx, pnonces, message, groupPubkey) ==
  (((EncodeNonces(pnonces, 1, 7) + idx * 101 + message * 13 + groupPubkey * 7) % 997)
     % (CURVE_ORDER - 1)) + 1

HashChallenge(groupNonce, groupPubkey, message) ==
  (((groupNonce * 37 + groupPubkey * 11 + message * 5 + 3) % 997) % (CURVE_ORDER - 1)) + 1

\* The set of indices of a list of nonces or shares.
IndexesOf(items) == { items[k].idx : k \in 1..Len(items) }

\* Lib.get_group_signing_ctx(groupPubkey, pnonces, message)
get_group_signing_ctx(groupPubkey, pnonces, message) ==
  LET bind(k) == HashRho(pnonces[k].idx, pnonces, message, groupPubkey)
      group_pn ==
        mod_n(SumOver(1..Len(pnonces),
                [k \in 1..Len(pnonces) |->
                   PointAdd(pnonces[k].hidden_pn,
                            PointScale(bind(k), pnonces[k].binder_pn))]))
  IN [ group_pk |-> groupPubkey,
       pnonces |-> pnonces,
       message |-> message,
       indexes |-> IndexesOf(pnonces),
       group_pn |-> group_pn,
       challenge |-> HashChallenge(group_pn, groupPubkey, message) ]

\* The binding factor of signer idx in a context.
get_bind_factor(ctx, idx) == HashRho(idx, ctx.pnonces, ctx.message, ctx.group_pk)

\* Lib.sign_msg(ctx, share, commit): z = d + rho * e + lambda * s * c.
sign_msg(ctx, share, commit) ==
  [ idx |-> share.idx,
    psig |-> mod_n(commit.hidden_sn
                   + get_bind_factor(ctx, share.idx) * commit.binder_sn
                   + interpolate_root(ctx.indexes, share.idx)
                       * hexToBigint(share.seckey) * ctx.challenge),
    pubkey |-> get_pubkey(share.seckey) ]

\* Lib.verify_partial_sig(ctx, pnonce, pubkey, psig):
\* z * G = D + rho * E + lambda * c * P.
verify_partial_sig(ctx, pnonce, pubkey, psig) ==
  PointMul(psig) =
    mod_n(pnonce.hidden_pn
          + get_bind_factor(ctx, pnonce.idx) * pnonce.binder_pn
          + interpolate_root(ctx.indexes, pnonce.idx) * ctx.challenge * pubkey)

\* Lib.combine_partial_sigs(ctx, psigs): the signature (R, sum of the z).
combine_partial_sigs(ctx, psigs) ==
  [ R |-> ctx.group_pn,
    s |-> mod_n(SumOver(1..Len(psigs), [k \in 1..Len(psigs) |-> psigs[k].psig])) ]

\* Lib.verify_final_sig(key context, message, signature): s * G = R + c * Y.
verify_final_sig(groupPubkey, message, signature) ==
  PointMul(signature.s) =
    PointAdd(signature.R,
             PointScale(HashChallenge(signature.R, groupPubkey, message), groupPubkey))

verifySignature(groupPubkey, message, signature) ==
  verify_final_sig(groupPubkey, message, signature)

\* The nonce pair (hidden, binder) signer idx samples under draw d.
DrawNonces(idx, d) ==
  [ hidden_sn |-> ((5 * idx + 3 * d + idx * d) % (CURVE_ORDER - 1)) + 1,
    binder_sn |-> ((2 * idx + 7 * d + 4) % (CURVE_ORDER - 1)) + 1 ]

\* Lib.create_commit_pkg(share) with the nonce pair it sampled.
create_commit_pkg(share, nonces) ==
  [ idx |-> share.idx,
    hidden_sn |-> nonces.hidden_sn, binder_sn |-> nonces.binder_sn,
    hidden_pn |-> PointMul(nonces.hidden_sn), binder_pn |-> PointMul(nonces.binder_sn) ]

PublicNonceOf(commitment) ==
  [ idx |-> commitment.idx,
    hidden_pn |-> commitment.hidden_pn, binder_pn |-> commitment.binder_pn ]

\* createKeyGroupWithDealer(threshold, maxSigners): the dealer's polynomial
\* under draw d, its shares, group key and commitments.
DealerCoefficients(t, d) == DrawCoefficients(0, d, t)

\* The share the dealer hands to holder i.
DealtShare(t, d, i) ==
  [idx |-> i, seckey |-> bigintToHex(evaluatePolynomial(DealerCoefficients(t, d), i))]

createKeyGroupWithDealer(t, n, d) ==
  [ shares |-> [i \in 1..n |-> DealtShare(t, d, i)],
    groupPubkey |-> PointMul(DealerCoefficients(t, d)[1]),
    vssCommitments |-> get_share_commits(DealerCoefficients(t, d)) ]

createKeyPackageFromShare(share, groupPubkey, vssCommitments, threshold, maxSigners) ==
  [ share |-> share, groupPubkey |-> groupPubkey, vssCommitments |-> vssCommitments,
    threshold |-> threshold, maxSigners |-> maxSigners ]

\* The key package of holder i of a dealt t-of-n key.
DealtKeyPackage(t, n, d, i) ==
  LET group == createKeyGroupWithDealer(t, n, d)
  IN createKeyPackageFromShare(group.shares[i], group.groupPubkey,
                               group.vssCommitments, t, n)

\* -------------------------------------------------------------- the state

VARIABLES
  dkgConfig,    \* the (threshold, maxSigners) of the DKG run and its draw
  dkg,          \* participant index -> its DKGSession
  published1,   \* the Round 1 packages broadcast so far
  published2,   \* the Round 2 packages sent so far
  dkgResult,    \* the last DKG call made on a session and how it ended
  signConfig,   \* the key and the SigningConfig of the signing session
  sign,         \* signer index -> its SigningSession
  publishedNonces,    \* the public nonces broadcast so far
  publishedPartials,  \* the partial signatures broadcast so far
  signResult,   \* the last signing call made and how it ended
  refreshConfig,    \* the key whose shares are refreshed
  holders,          \* holder index -> its KeyPackage and the refreshes applied
  refreshPackages,  \* the RefreshSharePackages distributed, by refresh round
  refreshResult,    \* the last signature asked of refreshed shares
  now,          \* the clock, in seconds
  capCall,      \* the arguments of the capability function called
  capReturn,    \* what the call returned
  store,        \* the CapabilityStore
  accepted,     \* the event ids whose revocation the store accepted
  relay,        \* the Relay: config, clients, eventStore, groups, admins, members
  sent,         \* the frames the relay sent while handling the last message
  sentWhen,     \* for each frame of sent, the ids the event store held then
  relayCall,    \* the last message a client sent or API call made
  pool,         \* what the clients of this run submit and subscribe to
  conn,         \* the chat client's RelayConnection: its fields
  sockets,      \* the WebSockets the connection created, by creation order
  wire,         \* the EVENT messages sent on a socket the relay has not answered
  timers,       \* the reconnect timers the connection created: set, cleared, fired
  promises,     \* the promises publish() returned, by creation order
  intent,       \* the last of connect() and disconnect() the application called
  clientCall,   \* the last step of the connection: a call, a socket event, a timer
  inbox         \* participant -> the DKG events the relay has yet to deliver to it

dkgVars == << dkgConfig, dkg, published1, published2, dkgResult >>

signVars == << signConfig, sign, publishedNonces, publishedPartials, signResult >>

refreshVars == << refreshConfig, holders, refreshPackages, refreshResult >>

capVars == << now, capCall, capReturn, store, accepted >>

relayVars == << relay, sent, sentWhen, relayCall, pool >>

clientVars == << conn, sockets, wire, timers, promises, intent, clientCall >>

vars == << dkgVars, signVars, refreshVars, capVars, relayVars, clientVars, inbox >>

NoCall == [op |-> "none", before |-> "none", error |-> ""]

\* The parts of the state a run does not use stay as constructed.
DKGIdle ==
  /\ dkgConfig = [threshold |-> 0, maxSigners |-> 0, draw |-> 0]
  /\ dkg = EmptyMap
  /\ published1 = {}
  /\ published2 = {}
  /\ dkgResult = NoCall

SignIdle ==
  /\ signConfig = [threshold |-> 0, maxSigners |-> 0, draw |-> 0]
  /\ sign = EmptyMap
  /\ publishedNonces = {}
  /\ publishedPartials = {}
  /\ signResult = NoCall

RefreshIdle ==
  /\ refreshConfig = [threshold |-> 0, maxSigners |-> 0, draw |-> 0]
  /\ holders = EmptyMap
  /\ refreshPackages = {}
  /\ refreshResult = NoCall

\* new CapabilityStore()
EmptyStore ==
  [ capabilities |-> EmptyMap, revokedIds |-> {},
    byHolder |-> EmptyMap, byIssuer |-> EmptyMap ]

CapIdle ==
  /\ now = 0
  /\ capCall = NoCall
  /\ capReturn = NoCall
  /\ store = EmptyStore
  /\ accepted = {}

\* What a run of one part of the system leaves as constructed and unchanged.
\* No relay is constructed.
RelayIdle ==
  /\ relay = << >>
  /\ sent = << >>
  /\ sentWhen = << >>
  /\ relayCall = NoCall
  /\ pool = << >>

\* No RelayConnection is constructed.
ClientIdle ==
  /\ conn = << >>
  /\ sockets = << >>
  /\ wire = << >>
  /\ timers = << >>
  /\ promises = << >>
  /\ intent = "none"
  /\ clientCall = NoCall

\* No relay carries DKG events between participants.
NetIdle == inbox = EmptyMap

OnlyDKG == SignIdle /\ RefreshIdle /\ CapIdle /\ RelayIdle /\ ClientIdle /\ NetIdle

OnlySign == DKGIdle /\ RefreshIdle /\ CapIdle /\ RelayIdle /\ ClientIdle /\ NetIdle

OnlyRefresh == DKGIdle /\ SignIdle /\ CapIdle /\ RelayIdle /\ ClientIdle /\ NetIdle

OnlyCap == DKGIdle /\ SignIdle /\ RefreshIdle /\ RelayIdle /\ ClientIdle /\ NetIdle

OnlyRelay == DKGIdle /\ SignIdle /\ RefreshIdle /\ ClientIdle /\ NetIdle

exceptDKG == << signVars, refreshVars, capVars, relayVars, clientVars, inbox >>

exceptSign == << dkgVars, refreshVars, capVars, relayVars, clientVars, inbox >>

exceptRefresh == << dkgVars, signVars, capVars, relayVars, clientVars, inbox >>

exceptCap == << dkgVars, signVars, refreshVars, relayVars, clientVars, inbox >>

exceptRelay == << dkgVars, signVars, refreshVars, clientVars, inbox >>

\* createDKGSession: the checks of the config.
DKGConfigError(config) ==
  IF config.threshold < 2 THEN "Threshold must be at least 2"
  ELSE IF config.threshold > config.maxSigners THEN "Threshold cannot exceed max signers"
  ELSE IF Len(config.participants) # config.maxSigners
       THEN "Number of participants must equal max signers"
  ELSE IF config.myIndex < 1 \/ config.myIndex > config.maxSigners
       THEN "My index must be between 1 and max signers"
  ELSE "ok"

createDKGSession(config) ==
  [ config |-> config,
    state |-> "initialized",
    round1Packages |-> EmptyMap,
    round2Packages |-> EmptyMap,
    myRound1Secret |-> None,
    keyPackage |-> None ]

DKGConfigOf(t, n, i) ==
  [ threshold |-> t, maxSigners |-> n,
    participants |-> [k \in 1..n |-> ParticipantPubkey(k)],
    myIndex |-> i, mySecretKey |-> SecretKeyOf(i) ]

\* What a call returns: the session the caller holds afterwards (the argument
\* itself when the call throws), the packages it hands out and the error thrown.
Ok(session, out1, out2) ==
  [error |-> "", session |-> session, packages1 |-> out1, packages2 |-> out2]

Err(session, msg) ==
  [error |-> msg, session |-> session, packages1 |-> {}, packages2 |-> {}]

\* generateRound1Package; coefficients are the threshold random scalars drawn.
generateRound1Package(session, coefficients) ==
  IF session.state # "initialized" THEN Err(session, "Invalid state for Round 1")
  ELSE
    LET myIndex == session.config.myIndex
        round1Package == [idx |-> myIndex,
                          vssCommitments |-> get_share_commits(coefficients)]
    IN Ok([session EXCEPT
             !.myRound1Secret = Some(coefficients),
             !.round1Packages = MapSet(@, myIndex, round1Package)],
          {round1Package}, {})

\* processRound1Package
processRound1Package(session, pkg) ==
  IF session.state \notin {"initialized", "round1_complete"}
    THEN Err(session, "Invalid state for processing Round 1")
  ELSE IF pkg.idx = session.config.myIndex
    THEN Err(session, "Cannot process own Round 1 package")
  ELSE IF pkg.idx < 1 \/ pkg.idx > session.config.maxSigners
    THEN Err(session, "Invalid participant index")
  ELSE IF Len(pkg.vssCommitments) # session.config.threshold
    THEN Err(session, "Invalid VSS commitments length")
  ELSE
    LET updatedPackages == MapSet(session.round1Packages, pkg.idx, pkg)
        allReceived == MapSize(updatedPackages) = session.config.maxSigners
    IN Ok([session EXCEPT
             !.round1Packages = updatedPackages,
             !.state = IF allReceived THEN "round1_complete" ELSE @],
          {}, {})

\* The loop of generateRound2Packages that pushes every participant's own
\* index on the outgoing list too.
Round2PackageList_ownIncluded(session) ==
  LET coefficients == session.myRound1Secret[1]
      myIndex == session.config.myIndex
  IN [ toIdx \in 1..session.config.maxSigners |->
         [fromIdx |-> myIndex, toIdx |-> toIdx,
          encryptedShare |->
            nip44_encrypt(bigintToHex(evaluatePolynomial(coefficients, toIdx)),
                          getConversationKey(session.config.mySecretKey,
                                             session.config.participants[toIdx]))] ]

\* The loop of generateRound2Packages: for toIdx from 1 to maxSigners, the own
\* index skipped, the share for toIdx sealed for its pubkey is pushed on the list.
Round2PackageList(session) ==
  LET coefficients == session.myRound1Secret[1]
      myIndex == session.config.myIndex
      others == SelectSeq([toIdx \in 1..session.config.maxSigners |-> toIdx],
                          LAMBDA toIdx : toIdx # myIndex)
  IN [ k \in 1..Len(others) |->
         [fromIdx |-> myIndex, toIdx |-> others[k],
          encryptedShare |->
            nip44_encrypt(bigintToHex(evaluatePolynomial(coefficients, others[k])),
                          getConversationKey(session.config.mySecretKey,
                                             session.config.participants[others[k]]))] ]

\* generateRound2Packages
generateRound2Packages(session) ==
  IF session.state # "round1_complete" THEN Err(session, "Invalid state for Round 2")
  ELSE IF session.myRound1Secret = None THEN Err(session, "Round 1 secret not found")
  ELSE
    LET coefficients == session.myRound1Secret[1]
        myIndex == session.config.myIndex
        list == Round2PackageList(session)
        packages == { list[k] : k \in 1..Len(list) }
        myRound2 == [fromIdx |-> myIndex, toIdx |-> myIndex,
                     encryptedShare |->
                       bigintToHex(evaluatePolynomial(coefficients, myIndex))]
    IN Ok([session EXCEPT !.round2Packages = MapSet(@, myIndex, myRound2)],
          {}, packages)

\* processRound2Package without the check of the session state.
processRound2Package_anyState(session, pkg) ==
  IF pkg.toIdx # session.config.myIndex
    THEN Err(session, "Round 2 package not addressed to me")
  ELSE IF pkg.fromIdx = session.config.myIndex
    THEN Err(session, "Cannot process own Round 2 package")
  ELSE IF pkg.fromIdx \notin DOMAIN session.config.participants
    THEN Err(session, "No pubkey for participant")
  ELSE
    LET conversationKey ==
          getConversationKey(session.config.mySecretKey,
                             session.config.participants[pkg.fromIdx])
        decrypted == nip44_decrypt(pkg.encryptedShare, conversationKey)
        decryptedShare == decrypted[1]
    IN
    IF decrypted = None THEN Err(session, "invalid MAC")
    ELSE IF pkg.fromIdx \notin DOMAIN session.round1Packages
      THEN Err(session, "No Round 1 package from participant")
    ELSE IF ~verify_share(session.round1Packages[pkg.fromIdx].vssCommitments,
                          [idx |-> session.config.myIndex, seckey |-> decryptedShare],
                          session.config.threshold)
      THEN Err(session, "Invalid share from participant")
    ELSE
      LET decryptedPkg == [pkg EXCEPT !.encryptedShare = decryptedShare]
          updatedPackages == MapSet(session.round2Packages, pkg.fromIdx, decryptedPkg)
          allReceived == MapSize(updatedPackages) = session.config.maxSigners
      IN Ok([session EXCEPT
               !.round2Packages = updatedPackages,
               !.state = IF allReceived THEN "round2_complete" ELSE @],
            {}, {})

\* processRound2Package
processRound2Package(session, pkg) ==
  IF session.state \notin {"round1_complete", "round2_complete"}
    THEN Err(session, "Invalid state for processing Round 2")
  ELSE IF pkg.toIdx # session.config.myIndex
    THEN Err(session, "Round 2 package not addressed to me")
  ELSE IF pkg.fromIdx = session.config.myIndex
    THEN Err(session, "Cannot process own Round 2 package")
  ELSE IF pkg.fromIdx \notin DOMAIN session.config.participants
    THEN Err(session, "No pubkey for participant")
  ELSE
    LET conversationKey ==
          getConversationKey(session.config.mySecretKey,
                             session.config.participants[pkg.fromIdx])
        decrypted == nip44_decrypt(pkg.encryptedShare, conversationKey)
        decryptedShare == decrypted[1]
    IN
    IF decrypted = None THEN Err(session, "invalid MAC")
    ELSE IF pkg.fromIdx \notin DOMAIN session.round1Packages
      THEN Err(session, "No Round 1 package from participant")
    ELSE IF ~verify_share(session.round1Packages[pkg.fromIdx].vssCommitments,
                          [idx |-> session.config.myIndex, seckey |-> decryptedShare],
                          session.config.threshold)
      THEN Err(session, "Invalid share from participant")
    ELSE
      LET decryptedPkg == [pkg EXCEPT !.encryptedShare = decryptedShare]
          updatedPackages == MapSet(session.round2Packages, pkg.fromIdx, decryptedPkg)
          allReceived == MapSize(updatedPackages) = session.config.maxSigners
      IN Ok([session EXCEPT
               !.round2Packages = updatedPackages,
               !.state = IF allReceived THEN "round2_complete" ELSE @],
            {}, {})

\* aggregateFirstCommitments: the first commitments added in index order.
aggregateFirstCommitments(round1Packages) ==
  mod_n(SumOver(DOMAIN round1Packages,
                [i \in DOMAIN round1Packages |-> round1Packages[i].vssCommitments[1]]))

\* aggregateVSSCommitments: position by position over all participants.
aggregateVSSCommitments(round1Packages, threshold) ==
  [k \in 1..threshold |->
     mod_n(SumOver(DOMAIN round1Packages,
                   [i \in DOMAIN round1Packages |-> round1Packages[i].vssCommitments[k]]))]

\* finalizeDKG with the own share left out of the aggregation.
finalizeDKG_withoutOwnShare(session) ==
  IF session.state # "round2_complete" THEN Err(session, "Invalid state for finalization")
  ELSE
    LET others == DOMAIN session.round2Packages \ {session.config.myIndex}
        aggregatedSecret ==
          mod_n(SumOver(others,
                        [i \in others |->
                           hexToBigint(session.round2Packages[i].encryptedShare)]))
        keyPackage ==
          [ share |-> [idx |-> session.config.myIndex,
                       seckey |-> bigintToHex(aggregatedSecret)],
            groupPubkey |-> aggregateFirstCommitments(session.round1Packages),
            vssCommitments |-> aggregateVSSCommitments(session.round1Packages,
                                                       session.config.threshold),
            threshold |-> session.config.threshold,
            maxSigners |-> session.config.maxSigners ]
    IN Ok([session EXCEPT !.state = "finalized", !.keyPackage = Some(keyPackage)],
          {}, {})

\* finalizeDKG
finalizeDKG(session) ==
  IF session.state # "round2_complete" THEN Err(session, "Invalid state for finalization")
  ELSE
    LET aggregatedSecret ==
          mod_n(SumOver(DOMAIN session.round2Packages,
                        [i \in DOMAIN session.round2Packages |->
                           hexToBigint(session.round2Packages[i].encryptedShare)]))
        keyPackage ==
          [ share |-> [idx |-> session.config.myIndex,
                       seckey |-> bigintToHex(aggregatedSecret)],
            groupPubkey |-> aggregateFirstCommitments(session.round1Packages),
            vssCommitments |-> aggregateVSSCommitments(session.round1Packages,
                                                       session.config.threshold),
            threshold |-> session.config.threshold,
            maxSigners |-> session.config.maxSigners ]
    IN Ok([session EXCEPT !.state = "finalized", !.keyPackage = Some(keyPackage)],
          {}, {})

\* --------------------------------------------- the DKG run of n participants

DKGInit ==
  \E t \in 1..MaxSigners, n \in 1..MaxSigners, d \in 1..MaxDraws :
    /\ dkgConfig = [threshold |-> t, maxSigners |-> n, draw |-> d]
    /\ dkg = [i \in { j \in 1..n : DKGConfigError(DKGConfigOf(t, n, j)) = "ok" }
                |-> createDKGSession(DKGConfigOf(t, n, i))]
    /\ published1 = {}
    /\ published2 = {}
    /\ dkgResult = NoCall
    /\ OnlyDKG

\* A call that returns: the caller keeps the new session and sends the packages.
DKGStep(p, r) ==
  /\ r.error = ""
  /\ dkg' = [dkg EXCEPT ![p] = r.session]
  /\ published1' = published1 \cup r.packages1
  /\ published2' = published2 \cup r.packages2
  /\ UNCHANGED << dkgConfig, dkgResult, exceptDKG >>

\* Each participant runs the protocol in its order: Round 1, then each peer's
\* Round 1 package once, Round 2, then each package addressed to it once, then
\* finalization.  Packages arrive in any order and the participants interleave.
RunRound1(p) ==
  /\ p \notin DOMAIN dkg[p].round1Packages
  /\ DKGStep(p, generateRound1Package(dkg[p],
                  DrawCoefficients(p, dkgConfig.draw, dkgConfig.threshold)))

IngestRound1(p) ==
  \E pkg \in published1 :
    /\ p \in DOMAIN dkg[p].round1Packages
    /\ pkg.idx \notin DOMAIN dkg[p].round1Packages
    /\ DKGStep(p, processRound1Package(dkg[p], pkg))

RunRound2(p) ==
  /\ p \notin DOMAIN dkg[p].round2Packages
  /\ DKGStep(p, generateRound2Packages(dkg[p]))

IngestRound2(p) ==
  \E pkg \in published2 :
    /\ p \in DOMAIN dkg[p].round2Packages
    /\ pkg.fromIdx \notin DOMAIN dkg[p].round2Packages
    /\ DKGStep(p, processRound2Package(dkg[p], pkg))

Finalize(p) == DKGStep(p, finalizeDKG(dkg[p]))

DKGNext ==
  \/ \E p \in DOMAIN dkg : RunRound1(p)
  \/ \E p \in DOMAIN dkg : IngestRound1(p)
  \/ \E p \in DOMAIN dkg : RunRound2(p)
  \/ \E p \in DOMAIN dkg : IngestRound2(p)
  \/ \E p \in DOMAIN dkg : Finalize(p)

SpecDKG == DKGInit /\ [][DKGNext]_vars

\* C1: in a DKG run of n participants with threshold t, 2 <= t <= n, every
\* finalized participant holds the same groupPubkey, which is the sum of every
\* participant's first commitment, and the shares of any t finalized
\* participants interpolate at 0 to the sum of all constant coefficients.
DKGCorrectness ==
  LET done == { p \in DOMAIN dkg : dkg[p].state = "finalized" }
      all == DOMAIN dkg
      kp(p) == dkg[p].keyPackage[1]
      firstCommitments ==
        mod_n(SumOver(all, [i \in all |-> dkg[i].round1Packages[i].vssCommitments[1]]))
      groupSecret ==
        mod_n(SumOver(all, [i \in all |-> dkg[i].myRound1Secret[1][1]]))
  IN \A p \in done :
       /\ kp(p).groupPubkey = firstCommitments
       /\ kp(p).groupPubkey = PointMul(groupSecret)
       /\ \A q \in done : kp(q).groupPubkey = kp(p).groupPubkey
       /\ \A S \in SUBSET done :
            Cardinality(S) = dkgConfig.threshold =>
              mod_n(SumOver(S, [i \in S |->
                      interpolate_root(S, i) * hexToBigint(kp(i).share.seckey)]))
                = groupSecret

\* A 2-of-3 run in which all three participants have finalized.
DKGCorrectnessWitness ==
  /\ dkgConfig.threshold = 2
  /\ dkgConfig.maxSigners = 3
  /\ DOMAIN dkg = 1..3
  /\ \A p \in DOMAIN dkg : dkg[p].state = "finalized"

\* ------------------------------------ one DKG session under arbitrary calls

\* The Round 1 packages a session may be handed: any index from 0 to n + 1
\* with the commitments a peer publishes, other commitments for the same index,
\* or commitments one short.
Round1Inputs(t, n) ==
  { [idx |-> i, vssCommitments |-> get_share_commits(DrawCoefficients(i, d, t))] :
      i \in 0..(n + 1), d \in 1..2 }
  \cup
  { [idx |-> i, vssCommitments |-> get_share_commits(DrawCoefficients(i, 1, t - 1))] :
      i \in 1..n }

\* The payloads a sender j may put in a Round 2 package for k: its share sealed
\* for k, a different scalar sealed for k, or bytes that no key opens.
Round2Payloads(j, k, t) ==
  { nip44_encrypt(bigintToHex(evaluatePolynomial(DrawCoefficients(j, 1, t), k)),
                  getConversationKey(SecretKeyOf(j), ParticipantPubkey(k))),
    nip44_encrypt(bigintToHex(mod_n(evaluatePolynomial(DrawCoefficients(j, 1, t), k) + 1)),
                  getConversationKey(SecretKeyOf(j), ParticipantPubkey(k))),
    [key |-> 0, payload |-> 0] }

\* Packages addressed to the session's owner me, or to its neighbour.
Round2Inputs(t, n, me) ==
  UNION { { [fromIdx |-> j, toIdx |-> k, encryptedShare |-> c] :
              c \in Round2Payloads(j, k, t) } :
          j \in 0..(n + 1), k \in {me, (me % n) + 1} }

\* The session of participant me is called with any operation in any order.
ApiInit ==
  \E t \in 1..MaxSigners, n \in 1..MaxSigners, me \in 1..MaxSigners :
    /\ dkgConfig = [threshold |-> t, maxSigners |-> n, draw |-> 1]
    /\ LET config == DKGConfigOf(t, n, me)
       IN IF DKGConfigError(config) = "ok"
          THEN /\ dkg = [i \in {me} |-> createDKGSession(config)]
               /\ dkgResult = [NoCall EXCEPT !.op = "createDKGSession",
                                             !.before = "initialized"]
          ELSE /\ dkg = EmptyMap
               /\ dkgResult = [NoCall EXCEPT !.op = "createDKGSession",
                                             !.error = DKGConfigError(config)]
    /\ published1 = {}
    /\ published2 = {}
    /\ OnlyDKG

\* A call on the session: the caller holds the returned session, or the one it
\* passed when the call threw.
ApiCall(p, op, r) ==
  /\ dkg' = [dkg EXCEPT ![p] = r.session]
  /\ dkgResult' = [op |-> op, before |-> dkg[p].state, error |-> r.error]
  /\ UNCHANGED << dkgConfig, published1, published2, exceptDKG >>

CallGenerateRound1(p) ==
  \E d \in 1..2 :
    ApiCall(p, "generateRound1Package",
            generateRound1Package(dkg[p], DrawCoefficients(p, d, dkgConfig.threshold)))

CallProcessRound1(p) ==
  \E pkg \in Round1Inputs(dkgConfig.threshold, dkgConfig.maxSigners) :
    ApiCall(p, "processRound1Package", processRound1Package(dkg[p], pkg))

\* The call of generateRound2Packages; the list it returns is recorded with
\* the call.
CallGenerateRound2(p) ==
  LET r == generateRound2Packages(dkg[p])
  IN /\ dkg' = [dkg EXCEPT ![p] = r.session]
     /\ dkgResult' = [op |-> "generateRound2Packages", before |-> dkg[p].state,
                      error |-> r.error,
                      packages |-> IF r.error = "" THEN Round2PackageList(dkg[p])
                                   ELSE << >>]
     /\ UNCHANGED << dkgConfig, published1, published2, exceptDKG >>

CallProcessRound2(p) ==
  \E pkg \in Round2Inputs(dkgConfig.threshold, dkgConfig.maxSigners, p) :
    ApiCall(p, "processRound2Package", processRound2Package(dkg[p], pkg))

CallFinalize(p) == ApiCall(p, "finalizeDKG", finalizeDKG(dkg[p]))

ApiNext ==
  \/ \E p \in DOMAIN dkg : CallGenerateRound1(p)
  \/ \E p \in DOMAIN dkg : CallProcessRound1(p)
  \/ \E p \in DOMAIN dkg : CallGenerateRound2(p)
  \/ \E p \in DOMAIN dkg : CallProcessRound2(p)
  \/ \E p \in DOMAIN dkg : CallFinalize(p)

SpecDKGApi == ApiInit /\ [][ApiNext]_vars

\* C5: generateRound2Packages and processRound2Package are rejected in state
\* initialized, finalizeDKG is rejected in every state but round2_complete, and
\* a call changes the state only one step forward along
\* initialized -> round1_complete -> round2_complete -> finalized.
DKGRoundGating ==
  \A p \in DOMAIN dkg :
    /\ ( /\ dkgResult.op \in {"generateRound2Packages", "processRound2Package"}
         /\ dkgResult.before = "initialized" ) => dkgResult.error # ""
    /\ ( /\ dkgResult.op = "finalizeDKG"
         /\ dkgResult.before # "round2_complete" ) => dkgResult.error # ""
    /\ \/ dkg[p].state = dkgResult.before
       \/ << dkgResult.before, dkg[p].state >> \in
            { << "initialized", "round1_complete" >>,
              << "round1_complete", "round2_complete" >>,
              << "round2_complete", "finalized" >> }

\* A session that went through every state: its finalizeDKG call returned.
DKGRoundGatingWitness ==
  \E p \in DOMAIN dkg :
    /\ dkgResult.op = "finalizeDKG"
    /\ dkgResult.error = ""
    /\ dkg[p].state = "finalized"

\* C6: a Round 2 package whose share fails verification against the sender's
\* commitments, or does not decrypt, leaves the session in state failed.
DKGFailureIsRecorded ==
  \A p \in DOMAIN dkg :
    ( /\ dkgResult.op = "processRound2Package"
      /\ dkgResult.error \in {"Invalid share from participant", "invalid MAC"} )
    => dkg[p].state = "failed"

\* ------------------------------------------------------ the signing engine

\* Array.prototype.includes on signerIndices.
Includes(list, x) == \E k \in 1..Len(list) : list[k] = x

createSigningSession(config, keyPackage) ==
  LET fresh == [ config |-> config, keyPackage |-> keyPackage,
                 myCommitment |-> None,
                 publicNonces |-> EmptyMap,
                 partialSignatures |-> EmptyMap,
                 finalSignature |-> None ]
  IN IF Len(config.signerIndices) < keyPackage.threshold
       THEN Err(fresh, "Not enough signers")
     ELSE IF ~Includes(config.signerIndices, keyPackage.share.idx)
       THEN Err(fresh, "This participant is not in the signer list")
     ELSE Ok(fresh, {}, {})

\* generateNonceCommitment; nonces is the pair create_commit_pkg samples.
generateNonceCommitment(session, nonces) ==
  IF session.myCommitment # None
    THEN Err(session, "Nonce commitment already generated for this session")
  ELSE
    LET commitment == create_commit_pkg(session.keyPackage.share, nonces)
        publicNonce == PublicNonceOf(commitment)
    IN Ok([session EXCEPT
             !.myCommitment = Some(commitment),
             !.publicNonces = MapSet(@, commitment.idx, publicNonce)],
          {publicNonce}, {})

processPublicNonce(session, nonce) ==
  IF ~Includes(session.config.signerIndices, nonce.idx)
    THEN Err(session, "Participant is not in the signer list")
  ELSE IF nonce.idx = session.keyPackage.share.idx /\ session.myCommitment = None
    THEN Err(session, "Received own nonce before generating commitment")
  ELSE Ok([session EXCEPT !.publicNonces = MapSet(@, nonce.idx, nonce)], {}, {})

\* hasAllNonces, had it counted each signer index once.
hasAllNonces_distinct(session) ==
  MapSize(session.publicNonces)
    = Cardinality({ session.config.signerIndices[k] :
                      k \in 1..Len(session.config.signerIndices) })

hasAllNonces(session) ==
  MapSize(session.publicNonces) = Len(session.config.signerIndices)

\* signerIndices.map(idx => map.get(idx)).filter(x => x !== undefined)
InSignerOrder(session, map) ==
  LET present == SelectSeq(session.config.signerIndices, LAMBDA i : i \in DOMAIN map)
  IN [k \in 1..Len(present) |-> map[present[k]]]

\* The signing context a session computes from the nonces it holds.
SessionCtx(session) ==
  get_group_signing_ctx(session.keyPackage.groupPubkey,
                        InSignerOrder(session, session.publicNonces),
                        session.config.message)

generatePartialSignature(session) ==
  IF session.myCommitment = None THEN Err(session, "Nonce commitment not generated")
  ELSE IF ~hasAllNonces(session) THEN Err(session, "Not all nonce commitments received")
  ELSE
    LET ctx == SessionCtx(session)
        commit == session.myCommitment[1]
        sig == sign_msg(ctx, session.keyPackage.share, commit)
    IN IF ~verify_partial_sig(ctx, PublicNonceOf(commit), sig.pubkey, sig.psig)
         THEN Err(session, "Generated invalid partial signature")
       ELSE Ok([session EXCEPT !.partialSignatures = MapSet(@, sig.idx, sig)],
               {}, {sig})

\* processPartialSignature without the verification of the partial signature.
processPartialSignature_unverified(session, partialSig) ==
  IF ~hasAllNonces(session)
    THEN Err(session, "Cannot process partial signatures before all nonces received")
  ELSE IF ~Includes(session.config.signerIndices, partialSig.idx)
    THEN Err(session, "Participant is not in the signer list")
  ELSE IF partialSig.idx \notin DOMAIN session.publicNonces
    THEN Err(session, "No nonce for participant")
  ELSE Ok([session EXCEPT !.partialSignatures = MapSet(@, partialSig.idx, partialSig)],
          {}, {})

processPartialSignature(session, partialSig) ==
  IF ~hasAllNonces(session)
    THEN Err(session, "Cannot process partial signatures before all nonces received")
  ELSE IF ~Includes(session.config.signerIndices, partialSig.idx)
    THEN Err(session, "Participant is not in the signer list")
  ELSE IF partialSig.idx \notin DOMAIN session.publicNonces
    THEN Err(session, "No nonce for participant")
  ELSE IF ~verify_partial_sig(SessionCtx(session), session.publicNonces[partialSig.idx],
                              partialSig.pubkey, partialSig.psig)
    THEN Err(session, "Invalid partial signature from participant")
  ELSE Ok([session EXCEPT !.partialSignatures = MapSet(@, partialSig.idx, partialSig)],
          {}, {})

hasAllPartialSignatures(session) ==
  MapSize(session.partialSignatures) = Len(session.config.signerIndices)

\* aggregateSignatures without its two checks.
aggregateSignatures_unchecked(session) ==
  LET signature == combine_partial_sigs(SessionCtx(session),
                     InSignerOrder(session, session.partialSignatures))
  IN Ok([session EXCEPT !.finalSignature = Some(signature)], {}, {signature})

aggregateSignatures(session) ==
  IF ~hasAllPartialSignatures(session)
    THEN Err(session, "Not all partial signatures received")
  ELSE
    LET signature == combine_partial_sigs(SessionCtx(session),
                       InSignerOrder(session, session.partialSignatures))
    IN IF ~verify_final_sig(session.keyPackage.groupPubkey, session.config.message,
                            signature)
         THEN Err(session, "Final signature verification failed")
       ELSE Ok([session EXCEPT !.finalSignature = Some(signature)], {}, {signature})

\* ------------------------------------------- the signing run of the signers

RECURSIVE Ascending(_)
\* The indices of S as an ascending list.
Ascending(S) ==
  IF S = {} THEN << >>
  ELSE LET m == CHOOSE x \in S : \A y \in S : x <= y
       IN << m >> \o Ascending(S \ {m})

SigningConfigOf(message, signerIndices) ==
  [ message |-> message, signerIndices |-> signerIndices ]

\* The 32-byte message the caller of draw d asks to sign.
MessageOf(d) == (7 * d + 2) % HexSpace

\* A dealt t-of-n key; a set of at least t of its holders opens one session
\* each on the same message and signer list.
SignInit ==
  \E t \in 2..MaxSigners, n \in 2..MaxSigners, d \in 1..MaxDraws,
     S \in SUBSET (1..MaxSigners) :
    /\ t <= n
    /\ S \subseteq 1..n
    /\ Cardinality(S) >= t
    /\ signConfig = [threshold |-> t, maxSigners |-> n, draw |-> d,
                     message |-> MessageOf(d), signerIndices |-> Ascending(S)]
    /\ sign = [i \in S |->
                 createSigningSession(SigningConfigOf(MessageOf(d), Ascending(S)),
                                      DealtKeyPackage(t, n, d, i)).session]
    /\ publishedNonces = {}
    /\ publishedPartials = {}
    /\ signResult = NoCall
    /\ OnlySign

\* A call of a signer: it keeps the session the call returns and broadcasts
\* what the call handed out; an exception is recorded.
SignStep(i, op, r) ==
  /\ sign' = [sign EXCEPT ![i] = r.session]
  /\ publishedNonces' = publishedNonces \cup r.packages1
  /\ publishedPartials' =
       publishedPartials \cup { x \in r.packages2 : "psig" \in DOMAIN x }
  /\ signResult' = IF r.error = "" THEN signResult
                   ELSE [op |-> op, before |-> "none", error |-> r.error]
  /\ UNCHANGED << signConfig, exceptSign >>

\* Each signer runs the protocol in its order: its nonce commitment, each
\* peer's nonce once, its partial signature, each peer's partial signature
\* once, then the aggregation.
CommitNonce(i) ==
  /\ sign[i].myCommitment = None
  /\ SignStep(i, "generateNonceCommitment", generateNonceCommitment(sign[i], DrawNonces(i, signConfig.draw)))

IngestNonce(i) ==
  \E nonce \in publishedNonces :
    /\ sign[i].myCommitment # None
    /\ nonce.idx \notin DOMAIN sign[i].publicNonces
    /\ SignStep(i, "processPublicNonce", processPublicNonce(sign[i], nonce))

SignPartial(i) ==
  /\ hasAllNonces(sign[i])
  /\ i \notin DOMAIN sign[i].partialSignatures
  /\ SignStep(i, "generatePartialSignature", generatePartialSignature(sign[i]))

IngestPartial(i) ==
  \E partialSig \in publishedPartials :
    /\ i \in DOMAIN sign[i].partialSignatures
    /\ partialSig.idx \notin DOMAIN sign[i].partialSignatures
    /\ SignStep(i, "processPartialSignature", processPartialSignature(sign[i], partialSig))

Aggregate(i) ==
  /\ hasAllPartialSignatures(sign[i])
  /\ sign[i].finalSignature = None
  /\ SignStep(i, "aggregateSignatures", aggregateSignatures(sign[i]))

SignNext ==
  \/ \E i \in DOMAIN sign : CommitNonce(i)
  \/ \E i \in DOMAIN sign : IngestNonce(i)
  \/ \E i \in DOMAIN sign : SignPartial(i)
  \/ \E i \in DOMAIN sign : IngestPartial(i)
  \/ \E i \in DOMAIN sign : Aggregate(i)

SpecSign == SignInit /\ [][SignNext]_vars

\* C2 (signing soundness and agreement): in a session of at least t key
\* holders with a duplicate-free signer list, where every signer processes
\* the honest nonces and partial signatures of the others, no call throws (so
\* every partial signature is accepted and every aggregation succeeds), the
\* signature a signer stores verifies under the group public key for the
\* session message, and all signers store the same one.
SigningSoundness ==
  /\ signResult.error = ""
  /\ \A i \in DOMAIN sign :
       sign[i].finalSignature # None
         => /\ verifySignature(sign[i].keyPackage.groupPubkey, signConfig.message,
                               sign[i].finalSignature[1])
            /\ \A j \in DOMAIN sign :
                 sign[j].finalSignature # None
                   => sign[j].finalSignature = sign[i].finalSignature

\* A 2-of-3 key signed by all three holders: each of them aggregated.
SigningSoundnessWitness ==
  /\ signConfig.threshold = 2
  /\ DOMAIN sign = {1, 2, 3}
  /\ \A i \in DOMAIN sign : sign[i].finalSignature # None

\* ---------------------------------- one signing session under arbitrary calls

\* Signing with every share given, whatever the threshold asked.
signWithShares_allShares(shares, message, threshold, d) ==
  IF Len(shares) = 0 THEN Err(shares, "Not enough shares")
  ELSE
    LET groupPubkey == shares[1].groupPubkey
        commits == [k \in 1..Len(shares) |->
                      create_commit_pkg(shares[k].share, DrawNonces(shares[k].share.idx, d))]
        ctx == get_group_signing_ctx(groupPubkey,
                   [k \in 1..Len(shares) |-> PublicNonceOf(commits[k])], message)
        psigs == [k \in 1..Len(shares) |-> sign_msg(ctx, shares[k].share, commits[k])]
        signature == combine_partial_sigs(ctx, psigs)
    IN IF ~verify_final_sig(groupPubkey, message, signature)
         THEN Err(shares, "Signature verification failed")
       ELSE Ok(shares, {}, {signature})

\* signWithShares(shares, message, threshold); every share draws its nonce
\* pair under draw d.  packages2 holds the signature returned.
signWithShares(shares, message, threshold, d) ==
  IF Len(shares) < threshold THEN Err(shares, "Not enough shares")
  ELSE
    LET selectedShares == SubSeq(shares, 1, threshold)
        groupPubkey == selectedShares[1].groupPubkey
        commits == [k \in 1..threshold |->
                      create_commit_pkg(selectedShares[k].share,
                                        DrawNonces(selectedShares[k].share.idx, d))]
        ctx == get_group_signing_ctx(groupPubkey,
                   [k \in 1..threshold |-> PublicNonceOf(commits[k])], message)
        psigs == [k \in 1..threshold |->
                    sign_msg(ctx, selectedShares[k].share, commits[k])]
        signature == combine_partial_sigs(ctx, psigs)
    IN IF ~verify_final_sig(groupPubkey, message, signature)
         THEN Err(shares, "Signature verification failed")
       ELSE Ok(shares, {}, {signature})

\* The secret the dealt key shares, and whether the key is in general
\* position: no fewer than t of its shares interpolate to the secret.  Random
\* polynomials over the curve order are, except with negligible probability.
Interpolate(S, shares) ==
  mod_n(SumOver(S, [i \in S |-> interpolate_root(S, i) * hexToBigint(shares[i].seckey)]))

GeneralPosition(t, n, d) ==
  \A S \in SUBSET (1..n) :
    (S # {} /\ Cardinality(S) < t)
      => Interpolate(S, createKeyGroupWithDealer(t, n, d).shares) # DealerCoefficients(t, d)[1]

\* The first draw that deals a t-of-n key in general position.
KeyDraw(t, n) ==
  CHOOSE d \in 1..MaxDraws :
    /\ GeneralPosition(t, n, d)
    /\ \A e \in 1..(d - 1) : ~GeneralPosition(t, n, e)

\* The signer lists a caller passes: the ascending lists of the non-empty sets
\* of holders, and each of them with its first index given twice.
SignerLists(n) ==
  LET asc == { Ascending(S) : S \in (SUBSET (1..n)) \ {{}} }
  IN asc \cup { << l[1] >> \o l : l \in asc }

\* The peer that sends a second nonce, different from its first.
Resender(me, n) == (me % n) + 1

RealShare(i) == DealtShare(signConfig.threshold, signConfig.draw, i)

HonestCommit(j) ==
  create_commit_pkg([idx |-> j, seckey |-> 0], DrawNonces(j, 1))

OtherCommit(j) ==
  create_commit_pkg([idx |-> j, seckey |-> 0], DrawNonces(j, 2))

\* The public nonces a caller may pass: the nonce of every index from 0 to n,
\* and the second nonce of the resending peer.
NonceInputs(me, n) ==
  { PublicNonceOf(HonestCommit(j)) : j \in 0..n }
    \cup { PublicNonceOf(OtherCommit(Resender(me, n))) }

\* The partial signatures a caller may pass in the session's present context:
\* the one every holder computes from its share and nonce, the resending
\* peer's from its second nonce, a changed one and one of index 0.
PartialInputs(session, me, n) ==
  LET ctx == SessionCtx(session)
      peer == Resender(me, n)
      honest(j) == sign_msg(ctx, RealShare(j), HonestCommit(j))
  IN { honest(j) : j \in 1..n }
       \cup { sign_msg(ctx, RealShare(peer), OtherCommit(peer)),
              [honest(peer) EXCEPT !.psig = mod_n(@ + 1)],
              [honest(peer) EXCEPT !.idx = 0] }

\* What is recorded of a call of the signing API: for signWithShares, whether it
\* was given fewer shares than the threshold it was asked for (short), whether
\* fewer shares than the key's threshold signed (few), and whether it returned a
\* signature that verifies under the group public key (valid).
SignCall(op, error) ==
  [ op |-> op, before |-> "none", error |-> error,
    short |-> FALSE, few |-> FALSE, valid |-> FALSE ]

\* A dealt key in general position, and the session its first or its last
\* holder `me` opens on a signer list; no session exists when
\* createSigningSession throws.
SignApiInit ==
  \E t \in 2..MaxSigners, n \in 2..MaxSigners, me \in 1..MaxSigners :
    /\ t <= n
    /\ me \in {1, n}
    /\ \E list \in SignerLists(n) :
         LET d == KeyDraw(t, n)
             r == createSigningSession(SigningConfigOf(MessageOf(d), list),
                                       DealtKeyPackage(t, n, d, me))
         IN /\ signConfig = [threshold |-> t, maxSigners |-> n, draw |-> d,
                             message |-> MessageOf(d), signerIndices |-> list]
            /\ sign = IF r.error = "" THEN [i \in {me} |-> r.session] ELSE EmptyMap
            /\ signResult = SignCall("createSigningSession", r.error)
    /\ publishedNonces = {}
    /\ publishedPartials = {}
    /\ OnlySign

\* A call on the session: the caller holds the returned session, or the one it
\* passed when the call threw, and the partial signatures the session hands
\* out are kept.
SignApiCall(i, op, r) ==
  /\ sign' = [sign EXCEPT ![i] = r.session]
  /\ signResult' = SignCall(op, r.error)
  /\ publishedPartials' =
       publishedPartials \cup { x \in r.packages2 : "psig" \in DOMAIN x }
  /\ UNCHANGED << signConfig, publishedNonces, exceptSign >>

CallGenerateNonce(i) ==
  SignApiCall(i, "generateNonceCommitment",
              generateNonceCommitment(sign[i], DrawNonces(i, 1)))

CallProcessNonce(i) ==
  \E nonce \in NonceInputs(i, signConfig.maxSigners) :
    SignApiCall(i, "processPublicNonce", processPublicNonce(sign[i], nonce))

CallGeneratePartial(i) ==
  SignApiCall(i, "generatePartialSignature", generatePartialSignature(sign[i]))

CallProcessPartial(i) ==
  \E partialSig \in PartialInputs(sign[i], i, signConfig.maxSigners) :
    SignApiCall(i, "processPartialSignature",
                processPartialSignature(sign[i], partialSig))

CallAggregate(i) ==
  SignApiCall(i, "aggregateSignatures", aggregateSignatures(sign[i]))

\* signWithShares on any shares of the key, in ascending order, for any
\* threshold asked.  It takes no session and changes none, so it is called
\* once, before the calls on the session.
CallSignWithShares ==
  /\ signResult.op = "createSigningSession"
  /\ \E S \in SUBSET (1..signConfig.maxSigners), threshold \in 1..signConfig.maxSigners :
       LET group == createKeyGroupWithDealer(signConfig.threshold,
                                             signConfig.maxSigners, signConfig.draw)
           shares == [k \in 1..Cardinality(S) |->
                        [share |-> group.shares[Ascending(S)[k]],
                         groupPubkey |-> group.groupPubkey]]
           r == signWithShares(shares, signConfig.message, threshold, 1)
           signed == IF Len(shares) < threshold THEN {}
                     ELSE { shares[k].share.idx : k \in 1..threshold }
       IN signResult' =
            [ SignCall("signWithShares", r.error) EXCEPT
                !.short = Len(shares) < threshold,
                !.few = Cardinality(signed) < signConfig.threshold,
                !.valid = \E signature \in r.packages2 :
                            verifySignature(group.groupPubkey, signConfig.message,
                                            signature) ]
  /\ UNCHANGED << signConfig, sign, publishedNonces, publishedPartials, exceptSign >>

SignApiNext ==
  \/ \E i \in DOMAIN sign : CallGenerateNonce(i)
  \/ \E i \in DOMAIN sign : CallProcessNonce(i)
  \/ \E i \in DOMAIN sign : CallGeneratePartial(i)
  \/ \E i \in DOMAIN sign : CallProcessPartial(i)
  \/ \E i \in DOMAIN sign : CallAggregate(i)
  \/ CallSignWithShares

SpecSignApi == SignApiInit /\ [][SignApiNext]_vars

\* The holders whose share of the key signed one of the partial signatures a
\* session holds.
TookPart(session) ==
  { j \in DOMAIN session.partialSignatures :
      session.partialSignatures[j].pubkey = get_pubkey(RealShare(j).seckey) }

NoncesSingleUse ==
  \A a, b \in publishedPartials : a = b

\* ------------------------------------------------------- key share refresh

\* Lib.gen_refresh_shares(idx, threshold, maxSigners): a polynomial with a
\* zero constant term and the threshold - 1 random coefficients given, its
\* value at every holder's index and the commitments to the coefficients.
gen_refresh_shares(idx, threshold, maxSigners, coefficients) ==
  [ idx |-> idx,
    shares |-> [j \in 1..maxSigners |->
                  [idx |-> j,
                   seckey |-> bigintToHex(
                                evaluatePolynomial(<< 0 >> \o coefficients, j))]],
    vss_commits |-> get_share_commits(coefficients) ]

\* Lib.refresh_share(refreshShares, share): the share plus the refresh shares.
refresh_share(refreshShares, share) ==
  [ idx |-> share.idx,
    seckey |-> bigintToHex(mod_n(hexToBigint(share.seckey)
                 + SumOver(1..Len(refreshShares),
                     [k \in 1..Len(refreshShares) |->
                        hexToBigint(refreshShares[k].seckey)]))) ]

generateRefreshShares(keyPackage, coefficients) ==
  LET refreshPkg == gen_refresh_shares(keyPackage.share.idx, keyPackage.threshold,
                                       keyPackage.maxSigners, coefficients)
  IN [ fromIdx |-> keyPackage.share.idx,
       refreshShares |-> refreshPkg.shares,
       vssCommitments |-> refreshPkg.vss_commits ]

RECURSIVE MergeAll(_, _, _)
\* The loop over refreshPackages[1..] that merges their commitments.
MergeAll(pkgs, i, acc) ==
  IF i > Len(pkgs) THEN acc
  ELSE MergeAll(pkgs, i + 1, merge_share_commits(acc, pkgs[i].vssCommitments))

\* A refresh that leaves the commitments of the key as they were.
applyRefreshShares_keepCommitments(currentKeyPackage, pkgs) ==
  LET share == currentKeyPackage.share
      myRefreshShares ==
        [k \in 1..Len(pkgs) |->
           pkgs[k].refreshShares[
             CHOOSE j \in 1..Len(pkgs[k].refreshShares) :
               pkgs[k].refreshShares[j].idx = share.idx]]
  IN Ok([currentKeyPackage EXCEPT !.share = refresh_share(myRefreshShares, share)],
        {}, {})

\* applyRefreshShares(currentKeyPackage, refreshPackages); the session field of
\* the result is the key package returned.
applyRefreshShares(currentKeyPackage, pkgs) ==
  LET share == currentKeyPackage.share
      vssCommitments == currentKeyPackage.vssCommitments
      threshold == currentKeyPackage.threshold
      has(k) == \E j \in 1..Len(pkgs[k].refreshShares) :
                  pkgs[k].refreshShares[j].idx = share.idx
  IN IF \E k \in 1..Len(pkgs) : ~has(k)
       THEN Err(currentKeyPackage, "No refresh share for index")
     ELSE
       LET myRefreshShares ==
             [k \in 1..Len(pkgs) |->
                pkgs[k].refreshShares[
                  CHOOSE j \in 1..Len(pkgs[k].refreshShares) :
                    /\ pkgs[k].refreshShares[j].idx = share.idx
                    /\ \A h \in 1..(j - 1) : pkgs[k].refreshShares[h].idx # share.idx]]
           newShare == refresh_share(myRefreshShares, share)
           aggregatedRefreshCommits == MergeAll(pkgs, 2, pkgs[1].vssCommitments)
           newVssCommitments ==
             [i \in 1..threshold |->
                IF i = 1 THEN vssCommitments[1]
                ELSE merge_share_commits(<< vssCommitments[i] >>,
                                         << aggregatedRefreshCommits[i - 1] >>)[1]]
       IN Ok([currentKeyPackage EXCEPT !.share = newShare,
                                       !.vssCommitments = newVssCommitments],
             {}, {})

verifyRefreshedShare(keyPackage) ==
  verify_share(keyPackage.vssCommitments, keyPackage.share, keyPackage.threshold)

\* The refresh packages of a round, in the order of their senders.
RoundPackages(round) ==
  LET of(p) == CHOOSE x \in refreshPackages : x.round = round /\ x.package.fromIdx = p
      senders == { x.package.fromIdx : x \in { y \in refreshPackages : y.round = round } }
  IN [k \in 1..Cardinality(senders) |-> of(Ascending(senders)[k]).package]

\* A dealt t-of-n key; every holder has its key package and has applied no
\* refresh.
RefreshInit ==
  \E t \in 2..MaxSigners, n \in 2..MaxSigners, d \in 1..MaxDraws :
    /\ t <= n
    /\ refreshConfig = [threshold |-> t, maxSigners |-> n, draw |-> d,
                        message |-> MessageOf(d),
                        groupPubkey |-> createKeyGroupWithDealer(t, n, d).groupPubkey]
    /\ holders = [i \in 1..n |-> [keyPackage |-> DealtKeyPackage(t, n, d, i),
                                  applied |-> 0]]
    /\ refreshPackages = {}
    /\ refreshResult = NoCall
    /\ OnlyRefresh

\* A holder generates its refresh package for the round after the refreshes
\* it has applied, and distributes it.
GenerateRefresh(p) ==
  LET round == holders[p].applied + 1
  IN /\ round <= MaxRefreshes
     /\ ~\E x \in refreshPackages : x.round = round /\ x.package.fromIdx = p
     /\ refreshPackages' = refreshPackages \cup
          { [round |-> round,
             package |-> generateRefreshShares(holders[p].keyPackage,
                           DrawCoefficients(p, refreshConfig.draw + round,
                                            refreshConfig.threshold - 1))] }
     /\ UNCHANGED << refreshConfig, holders, refreshResult, exceptRefresh >>

\* A holder that has the packages of all holders for its next round applies
\* them and keeps the key package returned.
ApplyRefresh(p) ==
  LET round == holders[p].applied + 1
      r == applyRefreshShares(holders[p].keyPackage, RoundPackages(round))
  IN /\ Len(RoundPackages(round)) = refreshConfig.maxSigners
     /\ holders' = [holders EXCEPT ![p] = [keyPackage |-> r.session,
                                           applied |-> IF r.error = "" THEN round
                                                       ELSE @.applied]]
     /\ refreshResult' = IF r.error = "" THEN refreshResult
                         ELSE [op |-> "applyRefreshShares", before |-> "none",
                               error |-> r.error]
     /\ UNCHANGED << refreshConfig, refreshPackages, exceptRefresh >>

\* signWithShares with the shares of any t holders that applied the same
\* refreshes, at least one.
SignRefreshed ==
  \E S \in SUBSET (DOMAIN holders) :
    /\ Cardinality(S) = refreshConfig.threshold
    /\ \A p, q \in S : holders[p].applied = holders[q].applied /\ holders[p].applied >= 1
    /\ LET shares == [k \in 1..Cardinality(S) |->
                        [share |-> holders[Ascending(S)[k]].keyPackage.share,
                         groupPubkey |-> holders[Ascending(S)[k]].keyPackage.groupPubkey]]
           r == signWithShares(shares, refreshConfig.message, refreshConfig.threshold, 1)
       IN refreshResult' =
            [ op |-> "signWithShares", before |-> "none",
              error |-> IF r.error # "" THEN r.error
                        ELSE IF \A signature \in r.packages2 :
                                  verifySignature(refreshConfig.groupPubkey,
                                                  refreshConfig.message, signature)
                             THEN ""
                             ELSE "not a signature of the original group key" ]
    /\ UNCHANGED << refreshConfig, holders, refreshPackages, exceptRefresh >>

RefreshNext ==
  \/ \E p \in DOMAIN holders : GenerateRefresh(p)
  \/ \E p \in DOMAIN holders : ApplyRefresh(p)
  \/ SignRefreshed

SpecRefresh == RefreshInit /\ [][RefreshNext]_vars

GRANT == 29000

REVOKE == 29001

DELEGATE == 29002

\* A Capability; expiresAt and the qualifier fields are None when the
\* property is absent, and qualifiers is None when the object is.
Capability(type, holder, issuer, issuedAt, expiresAt, qualifiers) ==
  [ type |-> type, holder |-> holder, issuer |-> issuer, issuedAt |-> issuedAt,
    expiresAt |-> expiresAt, qualifiers |-> qualifiers, delegationChain |-> << >> ]

Qualifiers(kinds, requiredTags, excludedTags) ==
  [ kinds |-> kinds, requiredTags |-> requiredTags, excludedTags |-> excludedTags,
    rateLimit |-> None ]

\* capability.qualifiers?.field: None when qualifiers or the field is absent.
QualifierOf(capability, field) ==
  IF capability.qualifiers = None THEN None ELSE capability.qualifiers[1][field]

\* The number parseInt yields for a text that is not a numeral.
NaN == -1

\* JavaScript truthiness of an optional number: absent, 0 and NaN are falsy.
TruthyNumber(opt) == opt # None /\ opt[1] # 0 /\ opt[1] # NaN

\* Array.prototype.includes / some on a list.
InList(list, x) == \E k \in 1..Len(list) : list[k] = x

isCapabilityExpired(capability, currentTime) ==
  IF ~TruthyNumber(capability.expiresAt) THEN FALSE
  ELSE currentTime >= capability.expiresAt[1]

\* eventKind is None when the caller gives none.
capabilityAllowsAction(capability, action, eventKind) ==
  IF capability.type # action THEN FALSE
  ELSE IF eventKind # None /\ QualifierOf(capability, "kinds") # None
            /\ ~InList(QualifierOf(capability, "kinds")[1], eventKind[1])
    THEN FALSE
  ELSE TRUE

\* A tag is the list of its name and its values.
HasTag(eventTags, pair) ==
  \E k \in 1..Len(eventTags) :
    /\ Len(eventTags[k]) >= 2
    /\ eventTags[k][1] = pair[1]
    /\ eventTags[k][2] = pair[2]

eventMatchesRequiredTags(eventTags, requiredTags) ==
  \A k \in 1..Len(requiredTags) : HasTag(eventTags, requiredTags[k])

eventHasExcludedTags(eventTags, excludedTags) ==
  \E k \in 1..Len(excludedTags) : HasTag(eventTags, excludedTags[k])

\* The body of the loop of checkAuthorization: the capability is not skipped.
NotSkipped(cap, pubkey, action, context, currentTime) ==
  /\ cap.holder = pubkey
  /\ ~isCapabilityExpired(cap, currentTime)
  /\ capabilityAllowsAction(cap, action, context.eventKind)
  /\ ~( /\ QualifierOf(cap, "requiredTags") # None
        /\ context.eventTags # None
        /\ ~eventMatchesRequiredTags(context.eventTags[1],
                                     QualifierOf(cap, "requiredTags")[1]) )
  /\ ~( /\ QualifierOf(cap, "excludedTags") # None
        /\ context.eventTags # None
        /\ eventHasExcludedTags(context.eventTags[1],
                                QualifierOf(cap, "excludedTags")[1]) )

RECURSIVE AuthorizeFrom(_, _, _, _, _, _)
\* The loop of checkAuthorization from position k of the list.
AuthorizeFrom(capabilities, k, pubkey, action, context, currentTime) ==
  IF k > Len(capabilities)
    THEN [authorized |-> FALSE, capability |-> None,
          error |-> "No valid capability found"]
  ELSE IF NotSkipped(capabilities[k], pubkey, action, context, currentTime)
    THEN [authorized |-> TRUE, capability |-> Some(capabilities[k]), error |-> ""]
  ELSE AuthorizeFrom(capabilities, k + 1, pubkey, action, context, currentTime)

\* checkAuthorization(capabilities, pubkey, action, context); clock is the
\* time Date.now() shows, used when the context gives no currentTime.
checkAuthorization(capabilities, pubkey, action, context, clock) ==
  AuthorizeFrom(capabilities, 1, pubkey, action, context,
                IF context.currentTime = None THEN clock ELSE context.currentTime[1])

\* ------------------------------------------- checkAuthorization, called

\* The capabilities a list is drawn from: holders alice and bob, types write
\* and read, with and without an expiry, with and without each qualifier.
CapabilityUniverse ==
  LET plain(holder, type, expiresAt, qualifiers) ==
        Capability(type, holder, "group", 0, expiresAt, qualifiers)
  IN  { plain("alice", "write", None, None),
        plain("alice", "write", Some(0), None),
        plain("alice", "write", Some(2), None),
        plain("alice", "write", None, Some(Qualifiers(Some(<< 9 >>), None, None))),
        plain("alice", "write", Some(2), Some(Qualifiers(Some(<< 9, 10 >>), None, None))),
        plain("alice", "write", None,
              Some(Qualifiers(None, Some(<< << "h", "g1" >> >>), None))),
        plain("alice", "write", None,
              Some(Qualifiers(None, None, Some(<< << "t", "spam" >> >>)))),
        plain("alice", "write", Some(3),
              Some(Qualifiers(Some(<< 9 >>), Some(<< << "h", "g1" >> >>),
                              Some(<< << "t", "spam" >> >>)))),
        plain("alice", "write", None, Some(Qualifiers(None, None, None))),
        plain("alice", "write", Some(0), Some(Qualifiers(Some(<< 9 >>), None, None))),
        plain("alice", "read", None, None),
        plain("bob", "write", None, None) }

\* The lists of at most MaxCaps capabilities.
CapabilityLists ==
  UNION { [1..len -> CapabilityUniverse] : len \in 0..MaxCaps }

\* The kinds and the tags of the event the authorization is asked for.
EventKinds == { None, Some(9), Some(11) }

EventTagLists ==
  { None, Some(<< >>), Some(<< << "h", "g1" >> >>),
    Some(<< << "h", "g1" >>, << "t", "spam" >> >>) }

\* A call of checkAuthorization for alice writing; the time is given in the
\* context or read from the clock.
AuthzInit ==
  /\ OnlyCap
  /\ store = EmptyStore
  /\ accepted = {}
  /\ capReturn = NoCall
  /\ \E capabilities \in CapabilityLists, t \in 0..MaxTime, given \in BOOLEAN,
        eventKind \in EventKinds, eventTags \in EventTagLists :
       /\ now = IF given THEN MaxTime ELSE t
       /\ capCall = [ op |-> "checkAuthorization", capabilities |-> capabilities,
                      pubkey |-> "alice", action |-> "write",
                      context |-> [ currentTime |-> IF given THEN Some(t) ELSE None,
                                    eventKind |-> eventKind,
                                    eventTags |-> eventTags ] ]

Authorize ==
  /\ capCall.op = "checkAuthorization"
  /\ capReturn = NoCall
  /\ capReturn' = checkAuthorization(capCall.capabilities, capCall.pubkey,
                                     capCall.action, capCall.context, now)
  /\ UNCHANGED << now, capCall, store, accepted, exceptCap >>

AuthzNext == Authorize

SpecAuthz == AuthzInit /\ [][AuthzNext]_vars

\* The time the call decides at.
TimeOfCall ==
  IF capCall.context.currentTime = None THEN now ELSE capCall.context.currentTime[1]

\* The conditions of the authorization decision as stated for a capability c.
StatedToAuthorize(c) ==
  /\ c.holder = capCall.pubkey
  /\ c.type = capCall.action
  /\ ~(c.expiresAt # None /\ c.expiresAt[1] # NaN /\ TimeOfCall >= c.expiresAt[1])
  /\ QualifierOf(c, "kinds") # None
       => \E k \in 1..Len(QualifierOf(c, "kinds")[1]) :
            QualifierOf(c, "kinds")[1][k] = capCall.context.eventKind[1]
  /\ QualifierOf(c, "requiredTags") # None
       => \A k \in 1..Len(QualifierOf(c, "requiredTags")[1]) :
            HasTag(capCall.context.eventTags[1], QualifierOf(c, "requiredTags")[1][k])
  /\ QualifierOf(c, "excludedTags") # None
       => \A k \in 1..Len(QualifierOf(c, "excludedTags")[1]) :
            ~HasTag(capCall.context.eventTags[1], QualifierOf(c, "excludedTags")[1][k])

\* C8: for a call that gives the event's kind and tags, checkAuthorization
\* returns authorized with the first capability of the list whose holder and
\* type match, which is not (expiresAt set and now >= expiresAt), whose kinds
\* hold the event's kind, whose required tags are all present and whose
\* excluded tags are all absent, and returns not authorized exactly when the
\* list holds no such capability.
AuthorizationDecision ==
  ( /\ capCall.op = "checkAuthorization"
    /\ capReturn # NoCall
    /\ capCall.context.eventKind # None
    /\ capCall.context.eventTags # None )
  => LET C == capCall.capabilities
         hits == { k \in 1..Len(C) : StatedToAuthorize(C[k]) }
     IN  IF hits = {}
           THEN ~capReturn.authorized
           ELSE /\ capReturn.authorized
                /\ capReturn.capability =
                     Some(C[CHOOSE k \in hits : \A j \in hits : k <= j])

\* ------------------------------------------------- capability events

\* parseInt(str, 10), over the numerals the events carry; String(n) is
\* ToString(n).
parseInt(str) ==
  LET Numerals == 0..20
  IN  IF \E n \in Numerals : ToString(n) = str
        THEN CHOOSE n \in Numerals : ToString(n) = str
        ELSE NaN

\* JSON.stringify of a list of tag pairs.
JSONstringify(pairs) == ToString(pairs)

\* The lists of tag pairs a qualifier carries.
TagPairLists == { << << "h", "g1" >> >>, << << "t", "spam" >> >> }

\* A JSON text that parses to a value that is no array: a number.
NumberTexts == { "5" }

\* The value JSON.parse gives for a number text, kept apart from every list
\* of tag pairs: its one element has one part, a pair has two.
NotAnArray == << << "number" >> >>

\* for (const [tagName, tagValue] of value) runs: the value is an array.
Iterable(value) == ~(Len(value) = 1 /\ Len(value[1]) = 1)

\* JSON.parse: None when it throws.
JSONparse(str) ==
  IF \E pairs \in TagPairLists : JSONstringify(pairs) = str
    THEN Some(CHOOSE pairs \in TagPairLists : JSONstringify(pairs) = str)
  ELSE IF str \in NumberTexts THEN Some(NotAnArray)
  ELSE None

RECURSIVE ThrowsFrom(_, _, _, _, _, _)
\* The loop of checkAuthorization from position k throws a TypeError: before
\* it returns it reaches a capability whose requiredTags or excludedTags is
\* truthy and not iterable (the for-of of eventMatchesRequiredTags and of
\* eventHasExcludedTags).
ThrowsFrom(capabilities, k, pubkey, action, context, currentTime) ==
  IF k > Len(capabilities) THEN FALSE
  ELSE
    LET cap == capabilities[k]
        required == QualifierOf(cap, "requiredTags")
        excluded == QualifierOf(cap, "excludedTags")
        rest == ThrowsFrom(capabilities, k + 1, pubkey, action, context, currentTime)
    IN  IF \/ cap.holder # pubkey
           \/ isCapabilityExpired(cap, currentTime)
           \/ ~capabilityAllowsAction(cap, action, context.eventKind)
          THEN rest
        ELSE IF required # None /\ context.eventTags # None /\ ~Iterable(required[1])
          THEN TRUE
        ELSE IF /\ required # None /\ context.eventTags # None
                /\ ~eventMatchesRequiredTags(context.eventTags[1], required[1])
          THEN rest
        ELSE IF excluded # None /\ context.eventTags # None /\ ~Iterable(excluded[1])
          THEN TRUE
        ELSE IF /\ excluded # None /\ context.eventTags # None
                /\ eventHasExcludedTags(context.eventTags[1], excluded[1])
          THEN rest
        ELSE FALSE

\* checkAuthorization(capabilities, pubkey, action, context) throws.
checkAuthorization_throws(capabilities, pubkey, action, context, clock) ==
  ThrowsFrom(capabilities, 1, pubkey, action, context,
             IF context.currentTime = None THEN clock ELSE context.currentTime[1])

\* JavaScript truthiness of an optional string: absent and "" are falsy.
TruthyString(opt) == opt # None /\ opt[1] # ""

\* tags.find((t) => t[0] === tagName): the position of the tag, 0 if none.
FindTag(tags, tagName) ==
  LET at == { k \in 1..Len(tags) : Len(tags[k]) >= 1 /\ tags[k][1] = tagName }
  IN  IF at = {} THEN 0 ELSE CHOOSE k \in at : \A j \in at : k <= j

getTagValue(tags, tagName) ==
  LET k == FindTag(tags, tagName)
  IN  IF k = 0 \/ Len(tags[k]) < 2 THEN None ELSE Some(tags[k][2])

getTagValues(tags, tagName) ==
  LET k == FindTag(tags, tagName)
  IN  IF k = 0 THEN << >> ELSE Tail(tags[k])

\* values.map(parseInt).filter((n) => !isNaN(n))
RECURSIVE ParseKinds(_)
ParseKinds(values) ==
  IF values = << >> THEN << >>
  ELSE IF parseInt(Head(values)) = NaN THEN ParseKinds(Tail(values))
  ELSE << parseInt(Head(values)) >> \o ParseKinds(Tail(values))

\* parseQualifiers(tags): the qualifiers object, a field None when unset.
parseQualifiers(tags) ==
  LET kindsValues == getTagValues(tags, "kinds")
      k == FindTag(tags, "rate-limit")
      \* a JSON tag: set when the tag has a text that parses
      ParseTagPairs(tagName) ==
        IF TruthyString(getTagValue(tags, tagName))
          THEN JSONparse(getTagValue(tags, tagName)[1])
          ELSE None
  IN  [ kinds |-> IF Len(kindsValues) > 0 THEN Some(ParseKinds(kindsValues)) ELSE None,
        requiredTags |-> ParseTagPairs("required-tags"),
        excludedTags |-> ParseTagPairs("excluded-tags"),
        rateLimit |->
          IF k # 0 /\ Len(tags[k]) >= 3 /\ parseInt(tags[k][2]) # NaN
                   /\ parseInt(tags[k][3]) # NaN
            THEN Some([count |-> parseInt(tags[k][2]),
                       periodSeconds |-> parseInt(tags[k][3])])
            ELSE None ]

\* The capability object both parse functions build from the tags:
\* expiresAt is expirationStr ? parseInt(expirationStr, 10) : undefined, and
\* qualifiers is there when Object.keys(qualifiers).length > 0.
ParsedCapability(type, holder, issuer, event) ==
  LET qualifiers == parseQualifiers(event.tags)
      expirationStr == getTagValue(event.tags, "expiration")
  IN  Capability(type, holder, issuer, event.created_at,
                 IF TruthyString(expirationStr)
                   THEN Some(parseInt(expirationStr[1])) ELSE None,
                 IF \E field \in DOMAIN qualifiers : qualifiers[field] # None
                   THEN Some(qualifiers) ELSE None)

validTypes == { "read", "write", "publish", "delete", "delegate" }

\* The parse functions return None for null.
parseCapabilityGrantEvent(event) ==
  LET holder == getTagValue(event.tags, "p")
      type == getTagValue(event.tags, "capability")
  IN  IF event.kind # GRANT THEN None
      ELSE IF ~TruthyString(holder) \/ ~TruthyString(type) THEN None
      ELSE IF type[1] \notin validTypes THEN None
      ELSE Some([ event |-> event,
                  capability |->
                    ParsedCapability(type[1], holder[1], event.pubkey, event) ])

parseRevocationEvent(event) ==
  LET revokedEventId == getTagValue(event.tags, "e")
  IN  IF event.kind # REVOKE THEN None
      ELSE IF ~TruthyString(revokedEventId) THEN None
      ELSE Some([ event |-> event, revokedEventId |-> revokedEventId[1],
                  groupPubkey |-> event.pubkey, revokedAt |-> event.created_at ])

parseDelegationEvent(event, originalCapability) ==
  LET holder == getTagValue(event.tags, "p")
      type == getTagValue(event.tags, "capability")
      originalEventId == getTagValue(event.tags, "e")
  IN  IF event.kind # DELEGATE THEN None
      ELSE IF ~TruthyString(holder) \/ ~TruthyString(type)
              \/ ~TruthyString(originalEventId) THEN None
      ELSE Some([ event |-> event,
                  capability |->
                    [ ParsedCapability(type[1], holder[1],
                                       originalCapability.issuer, event)
                      EXCEPT !.delegationChain =
                        Append(originalCapability.delegationChain,
                               [ delegator |-> event.pubkey, delegatee |-> holder[1],
                                 eventId |-> event.id ]) ] ])

\* q.kinds.map(String)
RECURSIVE StringsOf(_)
StringsOf(numbers) ==
  IF numbers = << >> THEN << >>
  ELSE << ToString(Head(numbers)) >> \o StringsOf(Tail(numbers))

\* The tags the create functions add for options.qualifiers and
\* options.expiresAt; options holds None for a property not given.
QualifierTags(options) ==
  IF options.qualifiers = None THEN << >>
  ELSE LET q == options.qualifiers[1]
           PairsTag(tagName, pairs) ==
             IF pairs # None /\ Len(pairs[1]) > 0
               THEN << << tagName, JSONstringify(pairs[1]) >> >> ELSE << >>
       IN  (IF q.kinds # None /\ Len(q.kinds[1]) > 0
              THEN << << "kinds" >> \o StringsOf(q.kinds[1]) >> ELSE << >>)
           \o PairsTag("required-tags", q.requiredTags)
           \o PairsTag("excluded-tags", q.excludedTags)
           \o (IF q.rateLimit # None
                 THEN << << "rate-limit", ToString(q.rateLimit[1].count),
                            ToString(q.rateLimit[1].periodSeconds) >> >>
                 ELSE << >>)

ExpirationTags(options) ==
  IF TruthyNumber(options.expiresAt)
    THEN << << "expiration", ToString(options.expiresAt[1]) >> >> ELSE << >>

Options(qualifiers, expiresAt) ==
  [ qualifiers |-> qualifiers, expiresAt |-> expiresAt, groupId |-> None ]

\* The create functions return an unsigned event; clock is the time
\* Date.now() shows.
createCapabilityGrantEvent(holder, type, groupPubkey, options, clock) ==
  [ kind |-> GRANT, pubkey |-> groupPubkey, created_at |-> clock,
    tags |-> << << "p", holder >>, << "capability", type >> >>
             \o QualifierTags(options) \o ExpirationTags(options)
             \o (IF TruthyString(options.groupId)
                   THEN << << "h", options.groupId[1] >> >> ELSE << >>),
    content |-> "" ]

createCapabilityRevocationEvent(eventIdToRevoke, groupPubkey, clock) ==
  [ kind |-> REVOKE, pubkey |-> groupPubkey, created_at |-> clock,
    tags |-> << << "e", eventIdToRevoke >> >>, content |-> "" ]

createCapabilityDelegationEvent(originalCapabilityEventId, newHolder, delegatorPubkey, type, options, clock) ==
  [ kind |-> DELEGATE, pubkey |-> delegatorPubkey, created_at |-> clock,
    tags |-> << << "e", originalCapabilityEventId >>, << "p", newHolder >>,
                << "capability", type >> >>
             \o QualifierTags(options) \o ExpirationTags(options),
    content |-> "" ]

\* nostr-tools: the id of an event is the hash of its serialised content, a
\* one-to-one text of it here.
getEventHash(event) ==
  ToString(<< 0, event.pubkey, event.created_at, event.kind, event.tags,
              event.content >>)

\* nostr-tools finalizeEvent: the key's holder becomes the pubkey, and the
\* signature is the signer's over the id.
finalizeEvent(template, signer) ==
  LET event == [template EXCEPT !.pubkey = signer]
  IN  [ kind |-> event.kind, pubkey |-> signer, created_at |-> event.created_at,
        tags |-> event.tags, content |-> event.content,
        id |-> getEventHash(event),
        sig |-> [by |-> signer, of |-> getEventHash(event)] ]

\* nostr-tools verifyEvent: the id is the content's hash and the signature
\* is the pubkey's over that id.
verifyEvent(event) ==
  /\ event.id = getEventHash(event)
  /\ event.sig = [by |-> event.pubkey, of |-> event.id]

\* ---------------------------------------------- capability validation

\* context.verifySignature, when given, is the set of events it accepts.
SignatureVerifies(event, context) ==
  IF context.verifySignature # None
    THEN event \in context.verifySignature[1]
    ELSE verifyEvent(event)

Valid(capability) == [valid |-> TRUE, error |-> "", capability |-> Some(capability)]

Invalid(error) == [valid |-> FALSE, error |-> error, capability |-> None]

validateCapabilityEvent_ignoringRevoked(event, expectedGroupPubkey, context) ==
  LET capEvent == parseCapabilityGrantEvent(event)
  IN  IF ~SignatureVerifies(event, context) THEN Invalid("Invalid event signature")
      ELSE IF event.kind # GRANT THEN Invalid("Invalid event kind")
      ELSE IF event.pubkey # expectedGroupPubkey
        THEN Invalid("Capability not issued by expected group")
      ELSE IF capEvent = None THEN Invalid("Failed to parse capability event")
      ELSE IF isCapabilityExpired(capEvent[1].capability, context.currentTime)
        THEN Invalid("Capability has expired")
      ELSE Valid(capEvent[1].capability)

validateCapabilityEvent(event, expectedGroupPubkey, context) ==
  LET capEvent == parseCapabilityGrantEvent(event)
  IN  IF ~SignatureVerifies(event, context) THEN Invalid("Invalid event signature")
      ELSE IF event.kind # GRANT THEN Invalid("Invalid event kind")
      ELSE IF event.pubkey # expectedGroupPubkey
        THEN Invalid("Capability not issued by expected group")
      ELSE IF capEvent = None THEN Invalid("Failed to parse capability event")
      ELSE IF event.id \in context.revokedEventIds
        THEN Invalid("Capability has been revoked")
      ELSE IF isCapabilityExpired(capEvent[1].capability, context.currentTime)
        THEN Invalid("Capability has expired")
      ELSE Valid(capEvent[1].capability)

\* --------------------------------------------------- CapabilityStore
\* The store of one relay process. clear() is left out: nothing in the
\* repository calls it, and a cleared store is a new store.

\* A JavaScript Set as the list of its members in insertion order.
SetAdd(members, x) == IF InList(members, x) THEN members ELSE Append(members, x)

SetDelete(members, x) == SelectSeq(members, LAMBDA y : y # x)

\* Map.prototype.delete on a copy of the map.
MapDelete(m, k) == [x \in DOMAIN m \ {k} |-> m[x]]

\* The index set of a key, the new Set() when the index has none.
IndexOf(index, key) == IF key \in DOMAIN index THEN index[key] ELSE << >>

\* Each store method returns the store it leaves and what it returns.
addCapability(st, event, groupPubkey, clock) ==
  LET context == [ currentTime |-> clock, revokedEventIds |-> st.revokedIds,
                   verifySignature |-> None ]
      result == validateCapabilityEvent(event, groupPubkey, context)
      capability == result.capability[1]
  IN  IF ~result.valid \/ result.capability = None
        THEN [store |-> st, result |-> result]
        ELSE [ store |->
                 [ st EXCEPT
                     !.capabilities =
                       MapSet(@, event.id, [event |-> event, capability |-> capability]),
                     !.byHolder =
                       MapSet(@, capability.holder,
                              SetAdd(IndexOf(@, capability.holder), event.id)),
                     !.byIssuer =
                       MapSet(@, capability.issuer,
                              SetAdd(IndexOf(@, capability.issuer), event.id)) ],
               result |-> result ]

\* The store after this.capabilities.delete and the deletes from the indexes.
RemoveCapability(st, eventId) ==
  IF eventId \notin DOMAIN st.capabilities THEN st
  ELSE LET capability == st.capabilities[eventId].capability
       IN  [ st EXCEPT
               !.capabilities = MapDelete(@, eventId),
               !.byHolder =
                 IF capability.holder \in DOMAIN @
                   THEN MapSet(@, capability.holder,
                               SetDelete(@[capability.holder], eventId))
                   ELSE @,
               !.byIssuer =
                 IF capability.issuer \in DOMAIN @
                   THEN MapSet(@, capability.issuer,
                               SetDelete(@[capability.issuer], eventId))
                   ELSE @ ]

addRevocation(st, event, groupPubkey) ==
  LET revocation == parseRevocationEvent(event)
  IN  IF event.pubkey # groupPubkey THEN [store |-> st, result |-> FALSE]
      ELSE IF ~verifyEvent(event) THEN [store |-> st, result |-> FALSE]
      ELSE IF revocation = None THEN [store |-> st, result |-> FALSE]
      ELSE [ store |->
               RemoveCapability(
                 [st EXCEPT !.revokedIds = @ \cup {revocation[1].revokedEventId}],
                 revocation[1].revokedEventId),
             result |-> TRUE ]

\* The capability events getCapabilitiesForHolder pushes the capabilities of.
HolderCapEvents(st, holder, clock) ==
  LET eventIds == IndexOf(st.byHolder, holder)
      live == SelectSeq(eventIds,
                LAMBDA eventId :
                  /\ eventId \in DOMAIN st.capabilities
                  /\ ~isCapabilityExpired(st.capabilities[eventId].capability, clock))
  IN  [k \in 1..Len(live) |-> st.capabilities[live[k]]]

getCapabilitiesForHolder(st, holder, clock) ==
  LET capEvents == HolderCapEvents(st, holder, clock)
  IN  [k \in 1..Len(capEvents) |-> capEvents[k].capability]

\* CapabilityStore.checkAuthorization(pubkey, action, context)
StoreCheckAuthorization(st, pubkey, action, context, clock) ==
  checkAuthorization(getCapabilitiesForHolder(st, pubkey, clock),
                     pubkey, action, context, clock)

isRevoked(st, eventId) == eventId \in st.revokedIds

\* ------------------------------------------------ the store, called

\* The group keys the relay passes as groupPubkey.
Groups == { "group", "group2" }

Holders == { "alice", "bob" }

\* The grants signed with the key of "group", issued at time 0.
GenuineGrants ==
  { finalizeEvent(createCapabilityGrantEvent("alice", "write", "group",
                                             Options(None, None), 0), "group"),
    finalizeEvent(createCapabilityGrantEvent("alice", "write", "group",
        Options(Some(Qualifiers(Some(<< 9 >>), None, None)), Some(2)), 0), "group"),
    finalizeEvent(createCapabilityGrantEvent("bob", "write", "group",
                                             Options(None, None), 0), "group") }

\* A grant signed by somebody else, one whose signature is another key's,
\* and one carrying the id of a different grant.
BadGrants ==
  LET template == createCapabilityGrantEvent("alice", "write", "group",
                                             Options(None, None), 0)
      genuine == finalizeEvent(template, "group")
  IN  { finalizeEvent(template, "mallory"),
        [genuine EXCEPT !.sig = [by |-> "mallory", of |-> genuine.id]],
        [ finalizeEvent(createCapabilityGrantEvent("alice", "read", "group",
                                                   Options(None, None), 0), "group")
          EXCEPT !.id = genuine.id ] }

\* The revocations of each grant by its group, and for the first grant
\* those that another group, another key and a forger make, and one that
\* names no event.
RevocationEvents ==
  LET first == finalizeEvent(createCapabilityGrantEvent("alice", "write", "group",
                                                        Options(None, None), 0), "group")
      byGroup(id) == finalizeEvent(createCapabilityRevocationEvent(id, "group", 0),
                                   "group")
  IN  { byGroup(grant.id) : grant \in GenuineGrants }
      \cup { finalizeEvent(createCapabilityRevocationEvent(first.id, "group2", 0),
                           "group2"),
             finalizeEvent(createCapabilityRevocationEvent(first.id, "group", 0),
                           "mallory"),
             [byGroup(first.id) EXCEPT !.sig = [by |-> "mallory", of |-> @.of]],
             finalizeEvent([createCapabilityRevocationEvent(first.id, "group", 0)
                              EXCEPT !.tags = << >>], "group") }

StoreInit ==
  /\ OnlyCap
  /\ CapIdle

AddCapability(event, groupPubkey) ==
  LET call == addCapability(store, event, groupPubkey, now)
  IN  /\ store' = call.store
      /\ capCall' = [ op |-> "addCapability", event |-> event,
                      groupPubkey |-> groupPubkey ]
      /\ capReturn' = call.result
      /\ UNCHANGED << now, accepted, exceptCap >>

AddRevocation(event, groupPubkey) ==
  LET call == addRevocation(store, event, groupPubkey)
  IN  /\ store' = call.store
      /\ capCall' = [ op |-> "addRevocation", event |-> event,
                      groupPubkey |-> groupPubkey ]
      /\ capReturn' = [returned |-> call.result]
      /\ accepted' = IF call.result
                       THEN accepted \cup {parseRevocationEvent(event)[1].revokedEventId}
                       ELSE accepted
      /\ UNCHANGED << now, exceptCap >>

\* A second passes.
Tick ==
  /\ now < MaxTime
  /\ now' = now + 1
  /\ UNCHANGED << capCall, capReturn, store, accepted, exceptCap >>

StoreNext ==
  \/ \E event \in GenuineGrants \cup BadGrants, groupPubkey \in Groups :
       AddCapability(event, groupPubkey)
  \/ \E event \in RevocationEvents, groupPubkey \in Groups :
       AddRevocation(event, groupPubkey)
  \/ Tick

SpecStore == StoreInit /\ [][StoreNext]_vars

\* The capabilities of the genuine grant events of id e.
CapabilitiesOfId(e) ==
  { parseCapabilityGrantEvent(grant)[1].capability :
      grant \in { g \in GenuineGrants : g.id = e } }

\* The contexts an authorization is asked with.
StoreContexts ==
  { [currentTime |-> None, eventKind |-> eventKind, eventTags |-> None] :
      eventKind \in EventKinds }

validateQualifiersSubset(original, delegated) ==
  LET origKinds == QualifierOf(original, "kinds")
      delKinds == QualifierOf(delegated, "kinds")
  IN  IF /\ origKinds # None
         /\ delKinds # None
         /\ \E k \in 1..Len(delKinds[1]) : ~InList(origKinds[1], delKinds[1][k])
        THEN Invalid("Delegated kind not in original capability")
      ELSE IF origKinds # None /\ delKinds = None
        THEN Invalid("Delegated capability must specify kinds subset")
      ELSE IF /\ TruthyNumber(original.expiresAt)
              /\ TruthyNumber(delegated.expiresAt)
              /\ delegated.expiresAt[1] > original.expiresAt[1]
        THEN Invalid("Delegated capability expires after original")
      ELSE IF TruthyNumber(original.expiresAt) /\ ~TruthyNumber(delegated.expiresAt)
        THEN Invalid("Delegated capability must have expiration")
      ELSE [valid |-> TRUE, error |-> "", capability |-> None]

\* The messages carry the original's error after "Original capability invalid: ".
validateDelegatedCapability(delegationEvent, originalCapabilityEvent, expectedGroupPubkey, context) ==
  LET originalResult == validateCapabilityEvent(originalCapabilityEvent,
                                                expectedGroupPubkey, context)
      original == originalResult.capability[1]
      delegatedCap == parseDelegationEvent(delegationEvent, original)
      subsetResult == validateQualifiersSubset(original, delegatedCap[1].capability)
  IN  IF ~originalResult.valid \/ originalResult.capability = None
        THEN Invalid("Original capability invalid")
      ELSE IF original.type # "delegate"
        THEN Invalid("Original capability does not allow delegation")
      ELSE IF ~SignatureVerifies(delegationEvent, context)
        THEN Invalid("Invalid delegation event signature")
      ELSE IF delegationEvent.pubkey # original.holder
        THEN Invalid("Delegation not signed by capability holder")
      ELSE IF delegationEvent.id \in context.revokedEventIds
        THEN Invalid("Delegation has been revoked")
      ELSE IF delegatedCap = None THEN Invalid("Failed to parse delegation event")
      ELSE IF isCapabilityExpired(delegatedCap[1].capability, context.currentTime)
        THEN Invalid("Delegated capability has expired")
      ELSE IF ~subsetResult.valid THEN subsetResult
      ELSE Valid(delegatedCap[1].capability)

\* The original grants: to alice, of type delegate or write, with and
\* without kinds [9,10], without an expiration tag or with "0" or "2"; and
\* one that another key signed.
OriginalEvents ==
  LET grant(type, kinds, expiration) ==
        [ createCapabilityGrantEvent("alice", type, "group",
            Options(IF kinds = None THEN None
                    ELSE Some(Qualifiers(kinds, None, None)), None), 0)
          EXCEPT !.tags = @ \o (IF expiration = None THEN << >>
                                ELSE << << "expiration", expiration[1] >> >>) ]
  IN  { finalizeEvent(grant(type, kinds, expiration), "group") :
          type \in { "delegate", "write" }, kinds \in { None, Some(<< 9, 10 >>) },
          expiration \in { None, Some("0"), Some("2") } }
      \cup { finalizeEvent(grant("delegate", None, None), "mallory") }

\* The delegations to bob that alice or mallory signs, naming the original
\* or another event, with no kinds, [9] or [9,10,11], with no expiry, 1 or 3;
\* and one whose signature is another key's.
DelegationEvents(original) ==
  LET delegation(reference, delegator, kinds, expiresAt) ==
        finalizeEvent(
          createCapabilityDelegationEvent(reference, "bob", delegator, "write",
            Options(IF kinds = None THEN None
                    ELSE Some(Qualifiers(kinds, None, None)), expiresAt), 0),
          delegator)
      plain == delegation(original.id, "alice", None, None)
  IN  { delegation(reference, delegator, kinds, expiresAt) :
          reference \in { original.id, "another" }, delegator \in { "alice", "mallory" },
          kinds \in { None, Some(<< 9 >>), Some(<< 9, 10, 11 >>) },
          expiresAt \in { None, Some(1), Some(3) } }
      \cup { [plain EXCEPT !.sig = [by |-> "mallory", of |-> plain.id]] }

DelegationInit ==
  /\ OnlyCap
  /\ store = EmptyStore
  /\ accepted = {}
  /\ capReturn = NoCall
  /\ now \in 0..MaxTime
  /\ \E original \in OriginalEvents :
       \E delegation \in DelegationEvents(original) :
         \E revoked \in { {}, {original.id}, {delegation.id} } :
         capCall = [ op |-> "validateDelegatedCapability",
                     delegationEvent |-> delegation,
                     originalCapabilityEvent |-> original,
                     expectedGroupPubkey |-> "group",
                     context |-> [ currentTime |-> now, revokedEventIds |-> revoked,
                                   verifySignature |-> None ] ]

ValidateDelegation ==
  /\ capCall.op = "validateDelegatedCapability"
  /\ capReturn = NoCall
  /\ capReturn' = validateDelegatedCapability(capCall.delegationEvent,
                    capCall.originalCapabilityEvent, capCall.expectedGroupPubkey,
                    capCall.context)
  /\ UNCHANGED << now, capCall, store, accepted, exceptCap >>

DelegationNext == ValidateDelegation

SpecDelegation == DelegationInit /\ [][DelegationNext]_vars

\* C10: a delegation validateDelegatedCapability accepts has a valid
\* original of type delegate, is signed by the original's holder, has kinds
\* that are a subset of the original's when the original has kinds, and has
\* an expiresAt no later than the original's when the original has one.
DelegationSubset ==
  ( /\ capCall.op = "validateDelegatedCapability"
    /\ capReturn # NoCall
    /\ capReturn.valid )
  => LET originalResult == validateCapabilityEvent(capCall.originalCapabilityEvent,
                             capCall.expectedGroupPubkey, capCall.context)
         original == originalResult.capability[1]
         delegated == capReturn.capability[1]
         origKinds == QualifierOf(original, "kinds")
         delKinds == QualifierOf(delegated, "kinds")
     IN  /\ originalResult.valid
         /\ original.type = "delegate"
         /\ verifyEvent(capCall.delegationEvent)
         /\ capCall.delegationEvent.pubkey = original.holder
         /\ origKinds # None
              => /\ delKinds # None
                 /\ \A k \in 1..Len(delKinds[1]) : InList(origKinds[1], delKinds[1][k])
         /\ original.expiresAt # None
              => /\ delegated.expiresAt # None
                 /\ delegated.expiresAt[1] <= original.expiresAt[1]

\* ------------------------------------- DKG completeness and session state

\* The states from s on, in the order a session goes through them.
OrLater(s) ==
  CASE s = "round1_complete" -> { "round1_complete", "round2_complete", "finalized" }
    [] s = "round2_complete" -> { "round2_complete", "finalized" }

\* C20: in every reachable DKG session, round1Packages holding maxSigners
\* entries (the own one included) implies the state is round1_complete or
\* later, and round2Packages holding maxSigners entries implies the state is
\* round2_complete or later, whatever the order of generation and ingestion.
DKGStateTracksCompleteness ==
  \A p \in DOMAIN dkg :
    /\ MapSize(dkg[p].round1Packages) = dkg[p].config.maxSigners
         => dkg[p].state \in OrLater("round1_complete")
    /\ MapSize(dkg[p].round2Packages) = dkg[p].config.maxSigners
         => dkg[p].state \in OrLater("round2_complete")

\* ------------------------------------------------------ NIP-29 events

\* NIP29_KINDS
CHAT_MESSAGE == 9

CHAT_REPLY == 10

TEXT_NOTE == 11

TEXT_REPLY == 12

MOD_ADD_USER == 9000

MOD_REMOVE_USER == 9001

MOD_EDIT_METADATA == 9002

MOD_DELETE_EVENT == 9005

MOD_CREATE_GROUP == 9007

MOD_DELETE_GROUP == 9008

JOIN_REQUEST == 9021

LEAVE_REQUEST == 9022

isNip29Event(kind) ==
  \/ kind \in { CHAT_MESSAGE, CHAT_REPLY, TEXT_NOTE, TEXT_REPLY }
  \/ (kind >= 9000 /\ kind <= 9022)
  \/ (kind >= 39000 /\ kind <= 39003)

isModerationEvent(kind) == kind >= 9000 /\ kind <= 9020

GROUP_METADATA == 39000

isRelayMetadataEvent(kind) == kind >= 39000 /\ kind <= 39003

\* getGroupId(event): None for null; the value of the first h tag.
getGroupId(event) == getTagValue(event.tags, "h")

\* event.tags.filter((t) => t[0] === name).map((t) => t[1]); no tag of the
\* events submitted lacks its value.
TagValues(event, name) ==
  LET named == SelectSeq(event.tags, LAMBDA t : Len(t) >= 2 /\ t[1] = name)
  IN  [k \in 1..Len(named) |-> named[k][2]]

\* validateNip29Event without the check for late publication.
validateNip29Event_noLateCheck(event, options, clock) ==
  IF ~verifyEvent(event) THEN [valid |-> FALSE, error |-> "Invalid signature"]
  ELSE IF ~TruthyString(getGroupId(event))
    THEN [valid |-> FALSE, error |-> "Missing h tag (group ID)"]
  ELSE [valid |-> TRUE, error |-> ""]

\* validateNip29Event(event, options); options.latePublicationWindow is None
\* when not given, and the previous references, of which minPreviousRefs 0
\* are asked, are left out. clock is the time Date.now() shows.
validateNip29Event(event, options, clock) ==
  IF ~verifyEvent(event) THEN [valid |-> FALSE, error |-> "Invalid signature"]
  ELSE IF ~TruthyString(getGroupId(event))
    THEN [valid |-> FALSE, error |-> "Missing h tag (group ID)"]
  ELSE IF /\ options.latePublicationWindow # None
          /\ clock - event.created_at > options.latePublicationWindow[1]
    THEN [valid |-> FALSE, error |-> "Late publication rejected"]
  ELSE [valid |-> TRUE, error |-> ""]

\* canPerformModerationAction(admins, pubkey, actionKind); admins is the
\* list of GroupAdmin, permissions the list of each.
canPerformModerationAction(admins, pubkey, actionKind) ==
  LET at == { k \in 1..Len(admins) : admins[k].pubkey = pubkey }
      admin == admins[CHOOSE k \in at : \A j \in at : k <= j]
      requiredPermission ==
        CASE actionKind = MOD_ADD_USER -> "add-user"
          [] actionKind = MOD_REMOVE_USER -> "remove-user"
          [] actionKind = MOD_EDIT_METADATA -> "edit-metadata"
          [] actionKind = MOD_DELETE_EVENT -> "delete-event"
          [] actionKind = MOD_DELETE_GROUP -> "delete-group"
          [] OTHER -> ""
  IN  IF at = {} THEN FALSE
      ELSE IF requiredPermission = "" THEN FALSE
      ELSE InList(admin.permissions, requiredPermission)

\* ------------------------------------------------------------ EventStore

\* events is the Map of the stored events in insertion order; byGroup,
\* byAuthor and byKind map a key to the Set of event ids, in insertion order.
\* recentEventPrefixes is left out: nothing reads it.
EmptyEventStore ==
  [events |-> << >>, byGroup |-> EmptyMap, byAuthor |-> EmptyMap, byKind |-> EmptyMap]

\* this.events.has(id)
EventsHas(es, id) == \E k \in 1..Len(es.events) : es.events[k].id = id

\* this.events.get(id), asked only of an id the Map has.
EventsGet(es, id) ==
  es.events[CHOOSE k \in 1..Len(es.events) : es.events[k].id = id]

\* EventStore.add(event): Map.set keeps the place of a key the Map has.
EventStore_add(es, event) ==
  LET groupId == getGroupId(event)
  IN  [ events |->
          IF EventsHas(es, event.id)
            THEN [k \in 1..Len(es.events) |->
                    IF es.events[k].id = event.id THEN event ELSE es.events[k]]
            ELSE Append(es.events, event),
        byGroup |->
          IF TruthyString(groupId)
            THEN MapSet(es.byGroup, groupId[1],
                        SetAdd(IndexOf(es.byGroup, groupId[1]), event.id))
            ELSE es.byGroup,
        byAuthor |->
          MapSet(es.byAuthor, event.pubkey,
                 SetAdd(IndexOf(es.byAuthor, event.pubkey), event.id)),
        byKind |->
          MapSet(es.byKind, event.kind,
                 SetAdd(IndexOf(es.byKind, event.kind), event.id)) ]

\* EventStore.delete(eventId); the value returned is not used by the relay.
EventStore_delete(es, eventId) ==
  IF ~EventsHas(es, eventId) THEN es
  ELSE
    LET event == EventsGet(es, eventId)
        groupId == getGroupId(event)
        without(index, key) ==
          IF key \in DOMAIN index
            THEN [index EXCEPT ![key] = SetDelete(@, eventId)]
            ELSE index
    IN  [ events |-> SelectSeq(es.events, LAMBDA e : e.id # eventId),
          byGroup |->
            IF TruthyString(groupId) THEN without(es.byGroup, groupId[1])
            ELSE es.byGroup,
          byAuthor |-> without(es.byAuthor, event.pubkey),
          byKind |-> without(es.byKind, event.kind) ]

intersection(a, b) == SelectSeq(a, LAMBDA item : InList(b, item))

RECURSIVE AddAll(_, _)
\* for (const id of ids) set.add(id)
AddAll(set, ids) ==
  IF ids = << >> THEN set ELSE AddAll(SetAdd(set, Head(ids)), Tail(ids))

RECURSIVE IdsOfKeys(_, _, _)
\* The Set query collects from an index for the values of a filter clause.
IdsOfKeys(index, keys, set) ==
  IF keys = << >> THEN set
  ELSE IdsOfKeys(index, Tail(keys), AddAll(set, IndexOf(index, Head(keys))))

\* matchesFilter(event, filter); a clause not given is << >>, since, until
\* and limit are None when undefined.
matchesFilter(event, filter) ==
  /\ ~(filter.since # None /\ event.created_at < filter.since[1])
  /\ ~(filter.until # None /\ event.created_at > filter.until[1])
  /\ filter.e # << >> =>
       \E k \in 1..Len(filter.e) : InList(TagValues(event, "e"), filter.e[k])
  /\ filter.p # << >> =>
       \E k \in 1..Len(filter.p) : InList(TagValues(event, "p"), filter.p[k])

RECURSIVE SortDescending(_)
\* results.sort((a, b) => b.created_at - a.created_at): the sort is stable.
SortDescending(results) ==
  IF results = << >> THEN << >>
  ELSE
    LET sorted == SortDescending(SubSeq(results, 1, Len(results) - 1))
        last == results[Len(results)]
        before == SelectSeq(sorted, LAMBDA r : r.created_at >= last.created_at)
        after == SelectSeq(sorted, LAMBDA r : r.created_at < last.created_at)
    IN  before \o << last >> \o after

\* EventStore.query(filter)
query(es, filter) ==
  LET byIds ==
        IF filter.ids # << >>
          THEN Some(AddAll(<< >>, SelectSeq(filter.ids, LAMBDA id : EventsHas(es, id))))
          ELSE None
      narrow(candidateIds, index, keys) ==
        IF keys # << >>
          THEN IF candidateIds # None
                 THEN Some(intersection(candidateIds[1], IdsOfKeys(index, keys, << >>)))
                 ELSE Some(IdsOfKeys(index, keys, << >>))
          ELSE candidateIds
      byH == narrow(byIds, es.byGroup, filter.h)
      byAuthors == narrow(byH, es.byAuthor, filter.authors)
      byKinds == narrow(byAuthors, es.byKind, filter.kinds)
      candidateIds ==
        IF byKinds = None THEN [k \in 1..Len(es.events) |-> es.events[k].id]
        ELSE byKinds[1]
      present == SelectSeq(candidateIds, LAMBDA id : EventsHas(es, id))
      found == [k \in 1..Len(present) |-> EventsGet(es, present[k])]
      results == SortDescending(SelectSeq(found, LAMBDA e : matchesFilter(e, filter)))
  IN  IF filter.limit # None /\ filter.limit[1] > 0 /\ filter.limit[1] < Len(results)
        THEN SubSeq(results, 1, filter.limit[1])
        ELSE results

\* ----------------------------------------------------------------- Relay

\* new Relay(config): the defaults of the constructor under the config given.
NewRelay(config) ==
  [ config |-> config, clients |-> << >>, eventStore |-> EmptyEventStore,
    groups |-> EmptyMap, admins |-> EmptyMap, members |-> EmptyMap ]

\* The handlers work on the relay, its capabilityStore and the frames sent
\* so far: w = [relay, store, sent].
\* Relay.send(client, message); the socket of a connected client is open.
send(w, client, message) ==
  [w EXCEPT !.sent = Append(@, [to |-> client, frame |-> message]),
            !.sentWhen = Append(@, { w.relay.eventStore.events[k].id :
                                       k \in 1..Len(w.relay.eventStore.events) })]

OKFrame(event, ok, message) ==
  [type |-> "OK", id |-> event.id, ok |-> ok, message |-> message]

EVENTFrame(subId, event) == [type |-> "EVENT", subId |-> subId, event |-> event]

\* this.members.get(groupId)?.has(pubkey) ?? false
isMember(r, groupId, pubkey) ==
  groupId \in DOMAIN r.members /\ InList(r.members[groupId], pubkey)

RECURSIVE AllSubscriptions(_)
\* The subscriptions in the order broadcastEvent goes through them.
AllSubscriptions(clients) ==
  IF clients = << >> THEN << >>
  ELSE [k \in 1..Len(Head(clients).subscriptions) |->
          [ client |-> Head(clients).id,
            subId |-> Head(clients).subscriptions[k].subId,
            filters |-> Head(clients).subscriptions[k].filters ]]
       \o AllSubscriptions(Tail(clients))

RECURSIVE BroadcastTo(_, _, _)
BroadcastTo(w, event, subscriptions) ==
  IF subscriptions = << >> THEN w
  ELSE
    LET sub == Head(subscriptions)
        hit == \E k \in 1..Len(sub.filters) :
                 \E j \in 1..Len(query(w.relay.eventStore, sub.filters[k])) :
                   query(w.relay.eventStore, sub.filters[k])[j].id = event.id
    IN  BroadcastTo(IF hit THEN send(w, sub.client, EVENTFrame(sub.subId, event)) ELSE w,
                    event, Tail(subscriptions))

\* Relay.broadcastEvent(event, groupId)
broadcastEvent(w, event) == BroadcastTo(w, event, AllSubscriptions(w.relay.clients))

\* An end of a handler that broadcasts the event before it answers.
StoreAndBroadcast_broadcastFirst(w, client, event) ==
  send(broadcastEvent([w EXCEPT !.relay.eventStore = EventStore_add(@, event)], event),
       client, OKFrame(event, TRUE, ""))

\* The end of a handler that accepts: store, answer, broadcast.
StoreAndBroadcast(w, client, event) ==
  broadcastEvent(
    send([w EXCEPT !.relay.eventStore = EventStore_add(@, event)],
         client, OKFrame(event, TRUE, "")),
    event)

\* Relay.checkEventAuthorization(client, event, groupId, group): what it
\* returns and the world it leaves.
checkEventAuthorization(w, client, event, groupId, clock) ==
  IF event.kind = JOIN_REQUEST THEN [returned |-> TRUE, w |-> w]
  ELSE
    LET member == isMember(w.relay, groupId, event.pubkey)
        capabilities == getCapabilitiesForHolder(w.store, event.pubkey, clock)
        requiredCapability ==
          IF event.kind \in { CHAT_MESSAGE, CHAT_REPLY, TEXT_NOTE, TEXT_REPLY }
            THEN "write"
          ELSE IF isModerationEvent(event.kind) THEN "delete"
          ELSE ""
        authResult ==
          checkAuthorization(capabilities, event.pubkey, requiredCapability,
                             [ eventKind |-> Some(event.kind),
                               eventTags |-> Some(event.tags),
                               currentTime |-> None ],
                             clock)
    IN  IF requiredCapability # "" /\ ~authResult.authorized /\ ~member
          THEN [ returned |-> FALSE,
                 w |-> send(w, client, OKFrame(event, FALSE, "restricted: not authorized")) ]
          ELSE [returned |-> TRUE, w |-> w]

RECURSIVE DeleteAll(_, _)
\* for (const eventId of eventIds) this.eventStore.delete(eventId)
DeleteAll(es, eventIds) ==
  IF eventIds = << >> THEN es
  ELSE DeleteAll(EventStore_delete(es, Head(eventIds)), Tail(eventIds))

\* Relay.handleModerationEvent(client, event, groupId)
\* handleModerationEvent, had it stored the event before the admin check.
handleModerationEvent_storeFirst(w, client, event, groupId) ==
  LET groupAdmins == IndexOf(w.relay.admins, groupId)
      targets == TagValues(event, "p")
      processed ==
        CASE event.kind = MOD_ADD_USER ->
               [w EXCEPT !.relay.members =
                  MapSet(@, groupId, AddAll(IndexOf(@, groupId), targets))]
          [] event.kind = MOD_REMOVE_USER ->
               IF groupId \in DOMAIN w.relay.members
                 THEN [w EXCEPT !.relay.members[groupId] =
                         SelectSeq(@, LAMBDA m : ~InList(targets, m))]
                 ELSE w
          [] event.kind = MOD_DELETE_EVENT ->
               [w EXCEPT !.relay.eventStore = DeleteAll(@, TagValues(event, "e"))]
          [] OTHER -> w
  IN  IF ~canPerformModerationAction(groupAdmins, event.pubkey, event.kind)
        THEN send([w EXCEPT !.relay.eventStore = EventStore_add(@, event)],
                  client, OKFrame(event, FALSE, "restricted: not admin"))
        ELSE StoreAndBroadcast(processed, client, event)

handleModerationEvent(w, client, event, groupId) ==
  LET groupAdmins == IndexOf(w.relay.admins, groupId)
      targets == TagValues(event, "p")
      processed ==
        CASE event.kind = MOD_ADD_USER ->
               [w EXCEPT !.relay.members =
                  MapSet(@, groupId, AddAll(IndexOf(@, groupId), targets))]
          [] event.kind = MOD_REMOVE_USER ->
               IF groupId \in DOMAIN w.relay.members
                 THEN [w EXCEPT !.relay.members[groupId] =
                         SelectSeq(@, LAMBDA m : ~InList(targets, m))]
                 ELSE w
          [] event.kind = MOD_DELETE_EVENT ->
               [w EXCEPT !.relay.eventStore = DeleteAll(@, TagValues(event, "e"))]
          [] OTHER -> w
  IN  IF ~canPerformModerationAction(groupAdmins, event.pubkey, event.kind)
        THEN send(w, client, OKFrame(event, FALSE, "restricted: not admin"))
        ELSE StoreAndBroadcast(processed, client, event)

\* handleJoinRequest adding the author whatever the group's access is.
handleJoinRequest_anyAccess(w, client, event, groupId) ==
  IF groupId \notin DOMAIN w.relay.groups
    THEN send(w, client, OKFrame(event, FALSE, "invalid: group not found"))
  ELSE
    LET joined ==
          [w EXCEPT !.relay.members =
             MapSet(@, groupId, SetAdd(IndexOf(@, groupId), event.pubkey))]
    IN  send([joined EXCEPT !.relay.eventStore = EventStore_add(@, event)],
             client, OKFrame(event, TRUE, ""))

\* Relay.handleJoinRequest(client, event, groupId)
handleJoinRequest(w, client, event, groupId) ==
  IF groupId \notin DOMAIN w.relay.groups
    THEN send(w, client, OKFrame(event, FALSE, "invalid: group not found"))
  ELSE
    LET joined ==
          IF w.relay.groups[groupId].access = "open"
            THEN [w EXCEPT !.relay.members =
                    MapSet(@, groupId, SetAdd(IndexOf(@, groupId), event.pubkey))]
            ELSE w
    IN  send([joined EXCEPT !.relay.eventStore = EventStore_add(@, event)],
             client, OKFrame(event, TRUE, ""))

\* Relay.handleLeaveRequest(client, event, groupId)
handleLeaveRequest(w, client, event, groupId) ==
  LET left ==
        IF groupId \in DOMAIN w.relay.members
          THEN [w EXCEPT !.relay.members[groupId] = SetDelete(@, event.pubkey)]
          ELSE w
  IN  send([left EXCEPT !.relay.eventStore = EventStore_add(@, event)],
           client, OKFrame(event, TRUE, ""))

\* Relay.handleNip29Event(client, event)
handleNip29Event(w, client, event, clock) ==
  LET groupId == getGroupId(event)
      validationOptions ==
        [latePublicationWindow |-> w.relay.config.latePublicationWindow]
      validation == validateNip29Event(event, validationOptions, clock)
      checked == checkEventAuthorization(w, client, event, groupId[1], clock)
  IN  IF ~TruthyString(groupId)
        THEN send(w, client, OKFrame(event, FALSE, "invalid: missing h tag"))
      ELSE IF groupId[1] \notin DOMAIN w.relay.groups /\ event.kind # MOD_CREATE_GROUP
        THEN send(w, client, OKFrame(event, FALSE, "invalid: group not found"))
      ELSE IF ~validation.valid
        THEN send(w, client, OKFrame(event, FALSE, "invalid: " \o validation.error))
      ELSE IF ~checked.returned THEN checked.w
      ELSE IF isModerationEvent(event.kind)
        THEN handleModerationEvent(w, client, event, groupId[1])
      ELSE IF event.kind = JOIN_REQUEST
        THEN handleJoinRequest(w, client, event, groupId[1])
      ELSE IF event.kind = LEAVE_REQUEST
        THEN handleLeaveRequest(w, client, event, groupId[1])
      ELSE StoreAndBroadcast(w, client, event)

\* handleCapabilityEvent without the comparison of the signer to the group key.
handleCapabilityEvent_anySigner(w, client, event, clock) ==
  LET groupId == getGroupId(event)
      group == w.relay.groups[groupId[1]]
      added == addCapability(w.store, event, group.pubkey, clock)
      revoked == addRevocation(w.store, event, group.pubkey)
  IN  IF ~TruthyString(groupId)
        THEN send(w, client, OKFrame(event, FALSE, "invalid: missing h tag"))
      ELSE IF groupId[1] \notin DOMAIN w.relay.groups
        THEN send(w, client, OKFrame(event, FALSE, "invalid: group not found"))
      ELSE IF event.kind = GRANT /\ ~added.result.valid
        THEN send(w, client, OKFrame(event, FALSE, "invalid: " \o added.result.error))
      ELSE StoreAndBroadcast(
             [w EXCEPT !.store = IF event.kind = GRANT THEN added.store
                                 ELSE IF event.kind = REVOKE THEN revoked.store
                                 ELSE @],
             client, event)

\* Relay.handleCapabilityEvent(client, event)
handleCapabilityEvent(w, client, event, clock) ==
  LET groupId == getGroupId(event)
      group == w.relay.groups[groupId[1]]
      added == addCapability(w.store, event, group.pubkey, clock)
      revoked == addRevocation(w.store, event, group.pubkey)
  IN  IF ~TruthyString(groupId)
        THEN send(w, client, OKFrame(event, FALSE, "invalid: missing h tag"))
      ELSE IF groupId[1] \notin DOMAIN w.relay.groups
        THEN send(w, client, OKFrame(event, FALSE, "invalid: group not found"))
      ELSE IF event.pubkey # group.pubkey
        THEN send(w, client, OKFrame(event, FALSE, "restricted: not group key"))
      ELSE IF event.kind = GRANT /\ ~added.result.valid
        THEN send(w, client, OKFrame(event, FALSE, "invalid: " \o added.result.error))
      ELSE StoreAndBroadcast(
             [w EXCEPT !.store = IF event.kind = GRANT THEN added.store
                                 ELSE IF event.kind = REVOKE THEN revoked.store
                                 ELSE @],
             client, event)

\* Relay.handleEvent(client, event); authedPubkey is None until AUTH succeeds.
handleEvent(w, client, event, clock) ==
  LET authedPubkey ==
        w.relay.clients[CHOOSE k \in 1..Len(w.relay.clients) :
                          w.relay.clients[k].id = client].authedPubkey
  IN  IF w.relay.config.requireAuth /\ ~TruthyString(authedPubkey)
        THEN send(w, client, OKFrame(event, FALSE, "auth-required: please authenticate"))
      ELSE IF ~verifyEvent(event)
        THEN send(w, client, OKFrame(event, FALSE, "invalid: bad signature"))
      ELSE IF Len(JSONstringify(event)) > w.relay.config.maxEventSize
        THEN send(w, client, OKFrame(event, FALSE, "invalid: event too large"))
      ELSE IF isNip29Event(event.kind) THEN handleNip29Event(w, client, event, clock)
      ELSE IF event.kind >= 29000 /\ event.kind <= 29002
        THEN handleCapabilityEvent(w, client, event, clock)
      ELSE send(w, client, OKFrame(event, FALSE, "blocked: only NIP-29 events accepted"))

\* Relay.handleEvent(client, event) throws: the event reaches the call of
\* checkAuthorization in checkEventAuthorization, and that call throws.
handleEvent_throws(w, client, event, clock) ==
  LET authedPubkey ==
        w.relay.clients[CHOOSE k \in 1..Len(w.relay.clients) :
                          w.relay.clients[k].id = client].authedPubkey
      groupId == getGroupId(event)
      validation ==
        validateNip29Event(
          event, [latePublicationWindow |-> w.relay.config.latePublicationWindow], clock)
      requiredCapability ==
        IF event.kind \in { CHAT_MESSAGE, CHAT_REPLY, TEXT_NOTE, TEXT_REPLY }
          THEN "write"
        ELSE IF isModerationEvent(event.kind) THEN "delete"
        ELSE ""
  IN  /\ ~(w.relay.config.requireAuth /\ ~TruthyString(authedPubkey))
      /\ verifyEvent(event)
      /\ Len(JSONstringify(event)) <= w.relay.config.maxEventSize
      /\ isNip29Event(event.kind)
      /\ TruthyString(groupId)
      /\ ~(groupId[1] \notin DOMAIN w.relay.groups /\ event.kind # MOD_CREATE_GROUP)
      /\ validation.valid
      /\ event.kind # JOIN_REQUEST
      /\ requiredCapability # ""
      /\ checkAuthorization_throws(
            getCapabilitiesForHolder(w.store, event.pubkey, clock), event.pubkey,
            requiredCapability,
            [ eventKind |-> Some(event.kind), eventTags |-> Some(event.tags),
              currentTime |-> None ],
            clock)

\* The "message" callback of a connection for ["EVENT", event]: handleMessage
\* runs inside try, and catch answers ["NOTICE", "Invalid message format"].
onMessage(w, client, event, clock) ==
  IF handleEvent_throws(w, client, event, clock)
    THEN send(w, client, [type |-> "NOTICE", message |-> "Invalid message format"])
    ELSE handleEvent(w, client, event, clock)

\* The kind of the event an AUTH message carries.
AUTH_EVENT == 22242

\* generateChallenge(): 32 random bytes in hex, one value per connection.
generateChallenge(client) == "challenge of " \o client

\* The "connection" callback of start(): the client is added, and with
\* requireAuth it is issued a challenge in an AUTH frame.
connection(w, client) ==
  LET added == [w EXCEPT !.relay.clients =
                  Append(@, [ id |-> client, subscriptions |-> << >>,
                              authedPubkey |-> None,
                              authChallenge |->
                                IF w.relay.config.requireAuth
                                  THEN Some(generateChallenge(client)) ELSE None ])]
  IN  IF w.relay.config.requireAuth
        THEN send(added, client,
                  [type |-> "AUTH", challenge |-> generateChallenge(client)])
        ELSE added

\* Relay.handleAuth without the comparison of the challenge.
handleAuth_anyChallenge(w, client, event) ==
  LET at == CHOOSE k \in 1..Len(w.relay.clients) : w.relay.clients[k].id = client
  IN  IF ~verifyEvent(event)
        THEN send(w, client, OKFrame(event, FALSE, "invalid: bad signature"))
      ELSE IF event.kind # AUTH_EVENT
        THEN send(w, client, OKFrame(event, FALSE, "invalid: wrong event kind"))
      ELSE send([w EXCEPT !.relay.clients[at].authedPubkey = Some(event.pubkey)],
                client, OKFrame(event, TRUE, ""))

\* Relay.handleAuth(client, event)
handleAuth(w, client, event) ==
  LET at == CHOOSE k \in 1..Len(w.relay.clients) : w.relay.clients[k].id = client
      challengeTag == FindTag(event.tags, "challenge")
      tagValue == IF Len(event.tags[challengeTag]) >= 2
                    THEN Some(event.tags[challengeTag][2]) ELSE None
  IN  IF ~verifyEvent(event)
        THEN send(w, client, OKFrame(event, FALSE, "invalid: bad signature"))
      ELSE IF event.kind # AUTH_EVENT
        THEN send(w, client, OKFrame(event, FALSE, "invalid: wrong event kind"))
      ELSE IF challengeTag = 0 \/ tagValue # w.relay.clients[at].authChallenge
        THEN send(w, client, OKFrame(event, FALSE, "invalid: wrong challenge"))
      ELSE send([w EXCEPT !.relay.clients[at].authedPubkey = Some(event.pubkey)],
                client, OKFrame(event, TRUE, ""))

\* Map.prototype.set on client.subscriptions: a key the Map has keeps its place.
SubscriptionsSet(subscriptions, subId, filters) ==
  IF \E k \in 1..Len(subscriptions) : subscriptions[k].subId = subId
    THEN [k \in 1..Len(subscriptions) |->
            IF subscriptions[k].subId = subId
              THEN [subId |-> subId, filters |-> filters]
              ELSE subscriptions[k]]
    ELSE Append(subscriptions, [subId |-> subId, filters |-> filters])

RECURSIVE SendStored(_, _, _, _)
\* The loop of handleReq over the filters and the events each one finds.
SendStored(w, client, subId, filters) ==
  IF filters = << >> THEN w
  ELSE
    LET events == query(w.relay.eventStore, Head(filters))
    IN  SendStored(
          [w EXCEPT !.sent =
             @ \o [k \in 1..Len(events) |->
                     [to |-> client, frame |-> EVENTFrame(subId, events[k])]]],
          client, subId, Tail(filters))

\* Relay.handleReq(client, subId, filters)
handleReq(w, client, subId, filters) ==
  LET at == CHOOSE k \in 1..Len(w.relay.clients) : w.relay.clients[k].id = client
  IN  IF Len(w.relay.clients[at].subscriptions) >= w.relay.config.maxSubscriptions
        THEN send(w, client,
                  [ type |-> "CLOSED", subId |-> subId,
                    message |-> "error: too many subscriptions" ])
        ELSE send(
               SendStored(
                 [w EXCEPT !.relay.clients[at].subscriptions =
                    SubscriptionsSet(@, subId, filters)],
                 client, subId, filters),
               client, [type |-> "EOSE", subId |-> subId])

\* Relay.handleClose(client, subId)
handleClose(w, client, subId) ==
  LET at == CHOOSE k \in 1..Len(w.relay.clients) : w.relay.clients[k].id = client
  IN  send([w EXCEPT !.relay.clients[at].subscriptions =
              SelectSeq(@, LAMBDA sub : sub.subId # subId)],
           client, [type |-> "CLOSED", subId |-> subId, message |-> ""])

\* Relay.createGroup(metadata, admins)
createGroup(r, metadata, admins) ==
  [r EXCEPT !.groups = MapSet(@, metadata.id, metadata),
            !.admins = MapSet(@, metadata.id, admins),
            !.members = MapSet(@, metadata.id, << >>)]

\* Relay.addMember(groupId, pubkey)
addMember(r, groupId, pubkey) ==
  [r EXCEPT !.members = MapSet(@, groupId, SetAdd(IndexOf(@, groupId), pubkey))]

\* ---------------------------------------------------------- the relay, run

\* An event of the given content, signed by its author.
Signed(kind, pubkey, created_at, tags) ==
  finalizeEvent([ kind |-> kind, pubkey |-> pubkey, created_at |-> created_at,
                  tags |-> tags, content |-> "" ], pubkey)

\* The filter with no clause.
AnyFilter ==
  [ ids |-> << >>, authors |-> << >>, kinds |-> << >>, h |-> << >>, e |-> << >>,
    p |-> << >>, since |-> None, until |-> None, limit |-> None ]

\* The config the constructor leaves when given only a port.
DefaultConfig ==
  [ maxEventSize |-> 65536, maxSubscriptions |-> 20,
    latePublicationWindow |-> Some(3600), requireAuth |-> FALSE ]

\* GroupMetadata of a group with its key, and the admins createGroup is given.
Group(id, access, pubkey, admins) ==
  [metadata |-> [id |-> id, access |-> access, pubkey |-> pubkey], admins |-> admins]

\* The grant createCapabilityGrantEvent builds for group G, signed by the key.
GrantFor(holder, type, groupPubkey, groupId, qualifiers, expiresAt) ==
  finalizeEvent(
    createCapabilityGrantEvent(holder, type, groupPubkey,
      [Options(qualifiers, expiresAt) EXCEPT !.groupId = Some(groupId)], 0),
    groupPubkey)

\* The revocation createCapabilityRevocationEvent builds, signed by the key.
RevocationOf(grant, groupPubkey) ==
  finalizeEvent(createCapabilityRevocationEvent(grant.id, groupPubkey, 0), groupPubkey)

\* What the clients of one run do: the config the relay is built with, the
\* groups created, the clients that connect, the events and the subscriptions
\* they send, the members the operator adds, and whether time passes.
Scenario(config, groups, clients, events, subIds, filters, members, ticks) ==
  [ config |-> config, groups |-> groups, clients |-> clients, events |-> events,
    subIds |-> subIds, filters |-> filters, members |-> members, ticks |-> ticks ]

\* Writing to a closed group: bob holds a write grant for kinds 9 and 10,
\* alice is made a member, and the group key revokes the grant, with the
\* event createCapabilityRevocationEvent builds and with one it adds the h
\* tag to.
WriteScenario ==
  LET grant == GrantFor("bob", "write", "group", "G",
                        Some(Qualifiers(Some(<< 9, 10 >>), None, None)), None)
  IN  Scenario(DefaultConfig, { Group("G", "closed", "group", << >>) }, { "c1" },
        { grant, RevocationOf(grant, "group"),
          Signed(REVOKE, "group", 0, << << "e", grant.id >>, << "h", "G" >> >>),
          Signed(CHAT_MESSAGE, "bob", 0, << << "h", "G" >> >>),
          Signed(TEXT_NOTE, "bob", 0, << << "h", "G" >> >>),
          Signed(CHAT_MESSAGE, "bob", 0, << >>),
          Signed(CHAT_MESSAGE, "alice", 0, << << "h", "G" >> >>) },
        { "s1" }, { << [AnyFilter EXCEPT !.h = << "G" >>] >> },
        { << "G", "alice" >> }, FALSE)

\* Grants that expire: bob's at time 2, as createCapabilityGrantEvent builds
\* it, and dave's at time 0, its expiration tag written by the group key.
ExpiryScenario ==
  Scenario(DefaultConfig, { Group("G", "closed", "group", << >>) }, { "c1" },
    { GrantFor("bob", "write", "group", "G", None, Some(2)),
      Signed(GRANT, "group", 0,
             << << "p", "dave" >>, << "capability", "write" >>,
                << "expiration", "0" >>, << "h", "G" >> >>),
      Signed(CHAT_MESSAGE, "bob", 0, << << "h", "G" >> >>),
      Signed(CHAT_MESSAGE, "dave", 0, << << "h", "G" >> >>) },
    { "s1" }, { << [AnyFilter EXCEPT !.h = << "G" >>] >> }, {}, TRUE)

\* Moderation and joining: carol administers the closed group G, nobody the
\* open group G2; carol adds and removes bob, dave tries to add himself, bob
\* asks to join either group and leaves G; the operator may make carol or
\* dave a member of G.
ModerationScenario ==
  Scenario(DefaultConfig,
    { Group("G", "closed", "group",
            << [ pubkey |-> "carol", label |-> "admin",
                 permissions |-> << "add-user", "remove-user" >> ] >>),
      Group("G2", "open", "group2", << >>) },
    { "c1" },
    { Signed(MOD_ADD_USER, "carol", 0, << << "h", "G" >>, << "p", "bob" >> >>),
      Signed(MOD_REMOVE_USER, "carol", 0, << << "h", "G" >>, << "p", "bob" >> >>),
      Signed(MOD_ADD_USER, "dave", 0, << << "h", "G" >>, << "p", "dave" >> >>),
      Signed(JOIN_REQUEST, "bob", 0, << << "h", "G" >> >>),
      Signed(JOIN_REQUEST, "bob", 0, << << "h", "G2" >> >>),
      Signed(LEAVE_REQUEST, "bob", 0, << << "h", "G" >> >>) },
    { "s1" }, { << [AnyFilter EXCEPT !.h = << "G" >>] >> },
    { << "G", "carol" >>, << "G", "dave" >> }, FALSE)

\* Capability events from the key of G, from the key of another group and
\* from a key that is no group's: a grant each, and from mallory also a
\* revocation and a delegation of the grant G's key signs.
KeyScenario ==
  LET grant == GrantFor("bob", "write", "group", "G", None, None)
      ofMallory(kind, tags) == Signed(kind, "mallory", 0, tags \o << << "h", "G" >> >>)
  IN  Scenario(DefaultConfig,
        { Group("G", "closed", "group", << >>), Group("G2", "closed", "group2", << >>) },
        { "c1" },
        { grant,
          Signed(REVOKE, "group", 0, << << "e", grant.id >>, << "h", "G" >> >>),
          GrantFor("dave", "write", "group2", "G", None, None),
          ofMallory(GRANT, << << "p", "mallory" >>, << "capability", "write" >> >>),
          ofMallory(REVOKE, << << "e", grant.id >> >>),
          ofMallory(DELEGATE, << << "e", grant.id >>, << "p", "dave" >>,
                                 << "capability", "write" >> >>) },
        { "s1" }, { << [AnyFilter EXCEPT !.h = << "G" >>] >> }, {}, FALSE)

\* Late publication: the relay is configured with a window of one second;
\* alice, whom the operator makes a member, sends a chat message dated 0 and
\* one dated 2, and dave asks to create a group, while time passes.
LateScenario ==
  Scenario([DefaultConfig EXCEPT !.latePublicationWindow = Some(1)],
    { Group("G", "closed", "group", << >>) }, { "c1" },
    { Signed(CHAT_MESSAGE, "alice", 0, << << "h", "G" >> >>),
      Signed(CHAT_MESSAGE, "alice", 2, << << "h", "G" >> >>),
      Signed(MOD_CREATE_GROUP, "dave", 0, << << "h", "G3" >> >>) },
    { "s1" }, { << [AnyFilter EXCEPT !.h = << "G" >>] >> }, { << "G", "alice" >> }, TRUE)

\* Subscriptions: the relay admits two per connection; the client opens,
\* replaces and closes s1 and s2, by group or by kind, while the member alice
\* sends a chat message and a note.
SubscriptionScenario ==
  Scenario([DefaultConfig EXCEPT !.maxSubscriptions = 2],
    { Group("G", "closed", "group", << >>) }, { "c1" },
    { Signed(CHAT_MESSAGE, "alice", 0, << << "h", "G" >> >>),
      Signed(TEXT_NOTE, "alice", 1, << << "h", "G" >> >>) },
    { "s1", "s2" },
    { << [AnyFilter EXCEPT !.h = << "G" >>] >>,
      << [AnyFilter EXCEPT !.kinds = << TEXT_NOTE >>] >> },
    { << "G", "alice" >> }, FALSE)

\* Queries: the member alice sends a chat message, a note that names bob and
\* refers to the chat message, and a chat message addressed to G and G2.
QueryScenario ==
  LET chat == Signed(CHAT_MESSAGE, "alice", 0, << << "h", "G" >> >>)
  IN  Scenario(DefaultConfig, { Group("G", "closed", "group", << >>) }, { "c1" },
        { chat,
          Signed(TEXT_NOTE, "alice", 1,
                 << << "h", "G" >>, << "p", "bob" >>, << "e", chat.id >> >>),
          Signed(CHAT_MESSAGE, "alice", 1, << << "h", "G" >>, << "h", "G2" >> >>) },
        { "s1" }, { << [AnyFilter EXCEPT !.h = << "G2" >>] >> },
        { << "G", "alice" >> }, FALSE)

\* Broadcast: two clients subscribe, to the newest event of G, to G and to
\* chat messages with two filters, or to notes, while the member alice sends a
\* chat message dated 1 and one dated 0.
BroadcastScenario ==
  Scenario(DefaultConfig, { Group("G", "closed", "group", << >>) }, { "c1", "c2" },
    { Signed(CHAT_MESSAGE, "alice", 1, << << "h", "G" >> >>),
      Signed(CHAT_MESSAGE, "alice", 0, << << "h", "G" >> >>) },
    { "s1" },
    { << [AnyFilter EXCEPT !.h = << "G" >>, !.limit = Some(1)] >>,
      << [AnyFilter EXCEPT !.h = << "G" >>],
         [AnyFilter EXCEPT !.kinds = << CHAT_MESSAGE >>] >>,
      << [AnyFilter EXCEPT !.kinds = << TEXT_NOTE >>] >> },
    { << "G", "alice" >> }, FALSE)

\* Authentication: the relay requires AUTH; alice, a member, answers the
\* challenge of c1 or of c2 on either connection, sends a chat message, an
\* answer of another kind and one whose signature is another key's.
AuthScenario ==
  LET answer(client) ==
        Signed(AUTH_EVENT, "alice", 0,
               << << "challenge", generateChallenge(client) >> >>)
  IN  Scenario([DefaultConfig EXCEPT !.requireAuth = TRUE],
        { Group("G", "closed", "group", << >>) }, { "c1", "c2" },
        { answer("c1"), answer("c2"),
          Signed(CHAT_MESSAGE, "alice", 0, << << "challenge", generateChallenge("c1") >>,
                                              << "h", "G" >> >>),
          [answer("c1") EXCEPT !.sig = [by |-> "mallory", of |-> answer("c1").id]] },
        { "s1" }, { << [AnyFilter EXCEPT !.h = << "G" >>] >> },
        { << "G", "alice" >> }, FALSE)

\* Two groups on one relay: the key of G grants bob the right to write and
\* the key of G2 grants it to dave; either key revokes the other group's
\* grant; bob and dave, members of neither, write to either group, and mallory
\* submits group metadata for G2.
ScopeScenario ==
  LET ofG == GrantFor("bob", "write", "group", "G", None, None)
      ofG2 == GrantFor("dave", "write", "group2", "G2", None, None)
  IN  Scenario(DefaultConfig,
        { Group("G", "closed", "group", << >>), Group("G2", "closed", "group2", << >>) },
        { "c1" },
        { ofG, ofG2,
          Signed(REVOKE, "group", 0, << << "e", ofG2.id >>, << "h", "G" >> >>),
          Signed(REVOKE, "group2", 0, << << "e", ofG.id >>, << "h", "G2" >> >>),
          Signed(CHAT_MESSAGE, "bob", 0, << << "h", "G2" >> >>),
          Signed(CHAT_MESSAGE, "dave", 0, << << "h", "G2" >> >>),
          Signed(GROUP_METADATA, "mallory", 0, << << "h", "G2" >>, << "d", "G2" >> >>) },
        { "s1" }, { << [AnyFilter EXCEPT !.h = << "G2" >>] >> }, {}, FALSE)

\* A grant of the group key whose required-tags text is the JSON of a
\* number, and a message of its holder.
QualifierScenario ==
  Scenario(DefaultConfig, { Group("G", "closed", "group", << >>) }, { "c1" },
    { Signed(GRANT, "group", 0,
             << << "p", "bob" >>, << "capability", "write" >>,
                << "required-tags", "5" >>, << "h", "G" >> >>),
      Signed(CHAT_MESSAGE, "bob", 0, << << "h", "G" >> >>) },
    { "s1" }, { << [AnyFilter EXCEPT !.h = << "G" >>] >> }, {}, FALSE)

Scenarios ==
  { WriteScenario, ExpiryScenario, ModerationScenario, KeyScenario, LateScenario,
    SubscriptionScenario, QueryScenario, BroadcastScenario, AuthScenario,
    ScopeScenario, QualifierScenario }

RelayInit ==
  /\ OnlyRelay
  /\ now = 0
  /\ capCall = NoCall
  /\ capReturn = NoCall
  /\ store = EmptyStore
  /\ accepted = {}
  /\ pool \in Scenarios
  /\ relay = NewRelay(pool.config)
  /\ sent = << >>
  /\ sentWhen = << >>
  /\ relayCall = NoCall

\* A handler has run: the relay, its capability store and the frames it sent.
RelayDone(w, call) ==
  /\ relay' = w.relay
  /\ store' = w.store
  /\ sent' = w.sent
  /\ sentWhen' = w.sentWhen
  /\ relayCall' = call
  /\ UNCHANGED << now, capCall, capReturn, accepted, pool, exceptRelay >>

World == [relay |-> relay, store |-> store, sent |-> << >>, sentWhen |-> << >>]

Connected(client) == \E k \in 1..Len(relay.clients) : relay.clients[k].id = client

\* A client connects: the "connection" callback of start().
Connect(client) ==
  /\ client \in pool.clients
  /\ ~Connected(client)
  /\ RelayDone(connection(World, client), [op |-> "connect", client |-> client])

\* The operator creates a group of the scenario, once.
CreateGroup(group) ==
  /\ group \in pool.groups
  /\ group.metadata.id \notin DOMAIN relay.groups
  /\ RelayDone([World EXCEPT !.relay = createGroup(@, group.metadata, group.admins)],
               [op |-> "createGroup", groupId |-> group.metadata.id])

\* The operator adds a member.
AddMember(groupId, pubkey) ==
  /\ << groupId, pubkey >> \in pool.members
  /\ groupId \in DOMAIN relay.groups
  /\ RelayDone([World EXCEPT !.relay = addMember(@, groupId, pubkey)],
               [op |-> "addMember", groupId |-> groupId, pubkey |-> pubkey])

\* A connected client sends ["EVENT", event].
SubmitEvent(client, event) ==
  /\ Connected(client)
  /\ event \in pool.events
  /\ RelayDone(onMessage(World, client, event, now),
               [op |-> "EVENT", client |-> client, event |-> event])

\* A connected client sends ["REQ", subId, ...filters].
Req(client, subId, filters) ==
  /\ Connected(client)
  /\ subId \in pool.subIds
  /\ filters \in pool.filters
  /\ RelayDone(handleReq(World, client, subId, filters),
               [op |-> "REQ", client |-> client, subId |-> subId, filters |-> filters])

\* A connected client that was issued a challenge sends ["AUTH", event].
Auth(client, event) ==
  /\ Connected(client)
  /\ relay.config.requireAuth
  /\ event \in pool.events
  /\ RelayDone(handleAuth(World, client, event),
               [op |-> "AUTH", client |-> client, event |-> event])

\* A connected client sends ["CLOSE", subId].
Close(client, subId) ==
  /\ Connected(client)
  /\ subId \in pool.subIds
  /\ RelayDone(handleClose(World, client, subId),
               [op |-> "CLOSE", client |-> client, subId |-> subId])

\* A second passes.
RelayTick ==
  /\ pool.ticks
  /\ now < MaxTime
  /\ now' = now + 1
  /\ sent' = << >>
  /\ sentWhen' = << >>
  /\ relayCall' = [op |-> "tick"]
  /\ UNCHANGED << capCall, capReturn, store, accepted, relay, pool, exceptRelay >>

RelayNext ==
  \/ \E client \in pool.clients : Connect(client)
  \/ \E group \in pool.groups : CreateGroup(group)
  \/ \E member \in pool.members : AddMember(member[1], member[2])
  \/ \E client \in pool.clients, event \in pool.events : SubmitEvent(client, event)
  \/ \E client \in pool.clients, subId \in pool.subIds, filters \in pool.filters :
       Req(client, subId, filters)
  \/ \E client \in pool.clients, subId \in pool.subIds : Close(client, subId)
  \/ \E client \in pool.clients, event \in pool.events : Auth(client, event)
  \/ RelayTick

SpecRelay == RelayInit /\ [][RelayNext]_vars

\* ------------------------------------------------- authorization to write

ChatKinds == { CHAT_MESSAGE, CHAT_REPLY, TEXT_NOTE, TEXT_REPLY }

\* The relay answered the event with this OK frame and nothing else.
OnlyAnswer(client, event, ok, message) ==
  sent' = << [to |-> client, frame |-> OKFrame(event, ok, message)] >>

\* The relay stored the event and answered it with a positive OK.
Accepts(client, event) ==
  /\ EventsHas(relay'.eventStore, event.id)
  /\ InList(sent', [to |-> client, frame |-> OKFrame(event, TRUE, "")])

\* The event is older than the window the relay is configured with.
Late(event) ==
  /\ relay.config.latePublicationWindow # None
  /\ now - event.created_at > relay.config.latePublicationWindow[1]

\* The author holds, in the relay's store, a capability of the type that is
\* not revoked, has not expired, and whose qualifiers match the event.
HoldsCapability(event, type) ==
  \E id \in DOMAIN store.capabilities :
    LET c == store.capabilities[id].capability
    IN  /\ id \notin store.revokedIds
        /\ c.holder = event.pubkey
        /\ c.type = type
        /\ ~(c.expiresAt # None /\ c.expiresAt[1] # NaN /\ now >= c.expiresAt[1])
        /\ QualifierOf(c, "kinds") # None => InList(QualifierOf(c, "kinds")[1], event.kind)
        /\ QualifierOf(c, "requiredTags") # None
             => \A k \in 1..Len(QualifierOf(c, "requiredTags")[1]) :
                  HasTag(event.tags, QualifierOf(c, "requiredTags")[1][k])
        /\ QualifierOf(c, "excludedTags") # None
             => \A k \in 1..Len(QualifierOf(c, "excludedTags")[1]) :
                  ~HasTag(event.tags, QualifierOf(c, "excludedTags")[1][k])

\* C11: a correctly signed chat or note event (kinds 9 to 12) without an h tag
\* is answered OK false "invalid: missing h tag"; one addressed to an existing
\* group, within the late publication window, is stored and answered OK true
\* exactly when its author is a member of the group or holds an unexpired,
\* unrevoked write capability whose qualifiers match it, and is otherwise
\* answered OK false "restricted: not authorized" with nothing stored.
WriteAuthorization ==
  [][ \A client \in pool.clients, event \in pool.events :
        ( /\ relayCall' = [op |-> "EVENT", client |-> client, event |-> event]
          /\ event.kind \in ChatKinds
          /\ verifyEvent(event) )
        => LET groupId == getGroupId(event)
           IN  /\ ~TruthyString(groupId)
                    => /\ OnlyAnswer(client, event, FALSE, "invalid: missing h tag")
                       /\ relay'.eventStore = relay.eventStore
               /\ ( /\ TruthyString(groupId)
                    /\ groupId[1] \in DOMAIN relay.groups
                    /\ ~Late(event) )
                    => IF \/ isMember(relay, groupId[1], event.pubkey)
                          \/ HoldsCapability(event, "write")
                         THEN Accepts(client, event)
                         ELSE /\ OnlyAnswer(client, event, FALSE,
                                            "restricted: not authorized")
                              /\ relay'.eventStore = relay.eventStore
    ]_vars

\* ------------------------------------------------------ revoking a grant

\* C12: when the group key submits the revocation createCapabilityRevocationEvent
\* builds for a grant the relay has accepted, the relay stores it, answers OK
\* true and applies it (the grant's id is revoked and its capability removed);
\* and once a grant's id is revoked, a kind-9 event to the group from its
\* holder, who is no member and holds no other capability, is answered OK
\* false "restricted: not authorized".
RevokeEndToEnd ==
  [][ \A client \in pool.clients, grant \in pool.events :
        grant.kind = GRANT =>
          /\ ( /\ grant.id \in DOMAIN store.capabilities
               /\ relayCall' = [ op |-> "EVENT", client |-> client,
                                 event |-> RevocationOf(grant, grant.pubkey) ] )
             => /\ Accepts(client, RevocationOf(grant, grant.pubkey))
                /\ grant.id \in store'.revokedIds
                /\ grant.id \notin DOMAIN store'.capabilities
          /\ \A event \in pool.events :
               ( /\ grant.id \in store.revokedIds
                 /\ relayCall' = [op |-> "EVENT", client |-> client, event |-> event]
                 /\ event.kind = CHAT_MESSAGE
                 /\ getTagValue(grant.tags, "p") = Some(event.pubkey)
                 /\ getGroupId(event) = getGroupId(grant)
                 /\ ~isMember(relay, getGroupId(event)[1], event.pubkey)
                 /\ \A id \in DOMAIN store.capabilities :
                      store.capabilities[id].capability.holder # event.pubkey )
               => OnlyAnswer(client, event, FALSE, "restricted: not authorized")
    ]_vars

\* ------------------------------------------------------------ moderation

\* The permission a moderation kind asks of an admin, "" for a kind that
\* has none.
PermissionFor(kind) ==
  CASE kind = MOD_ADD_USER -> "add-user"
    [] kind = MOD_REMOVE_USER -> "remove-user"
    [] kind = MOD_EDIT_METADATA -> "edit-metadata"
    [] kind = MOD_DELETE_EVENT -> "delete-event"
    [] kind = MOD_DELETE_GROUP -> "delete-group"
    [] OTHER -> ""

\* The author is a recorded admin of the group with the kind's permission.
AdminWithPermission(groupId, event) ==
  /\ groupId \in DOMAIN relay.admins
  /\ \E k \in 1..Len(relay.admins[groupId]) :
       /\ relay.admins[groupId][k].pubkey = event.pubkey
       /\ InList(relay.admins[groupId][k].permissions, PermissionFor(event.kind))

\* The relay answered the event with one negative OK and nothing else.
Rejects(client, event) ==
  /\ Len(sent') = 1
  /\ sent'[1].to = client
  /\ sent'[1].frame.type = "OK"
  /\ sent'[1].frame.id = event.id
  /\ ~sent'[1].frame.ok

\* C13: a correctly signed moderation event (kinds 9000 to 9020) addressed to
\* an existing group, within the late publication window, is stored and
\* answered OK true when its author is a recorded admin of the group with the
\* permission of its kind, member or not, with or without a capability; from
\* anyone else it is answered OK false and the members and the stored events
\* stay as they are.
ModerationAuthorization ==
  [][ \A client \in pool.clients, event \in pool.events :
        ( /\ relayCall' = [op |-> "EVENT", client |-> client, event |-> event]
          /\ isModerationEvent(event.kind)
          /\ verifyEvent(event)
          /\ TruthyString(getGroupId(event))
          /\ getGroupId(event)[1] \in DOMAIN relay.groups
          /\ ~Late(event) )
        => IF AdminWithPermission(getGroupId(event)[1], event)
             THEN Accepts(client, event)
             ELSE /\ Rejects(client, event)
                  /\ relay'.members = relay.members
                  /\ relay'.eventStore = relay.eventStore
    ]_vars

\* ---------------------------------------------- who may send capability events

CapabilityKinds == { GRANT, REVOKE, DELEGATE }

\* C14: the relay stores and answers OK true a correctly signed capability
\* event (kinds 29000 to 29002) only if its h tag names an existing group and
\* its pubkey is that group's public key; from any other signer it is answered
\* OK false, and the capability store with its revoked set, and the stored
\* events, stay as they are.
CapabilityEventsFromGroupKey ==
  [][ \A client \in pool.clients, event \in pool.events :
        ( /\ relayCall' = [op |-> "EVENT", client |-> client, event |-> event]
          /\ event.kind \in CapabilityKinds
          /\ verifyEvent(event) )
        => LET groupId == getGroupId(event)
               fromGroupKey ==
                 /\ TruthyString(groupId)
                 /\ groupId[1] \in DOMAIN relay.groups
                 /\ event.pubkey = relay.groups[groupId[1]].pubkey
           IN  /\ Accepts(client, event) => fromGroupKey
               /\ ~fromGroupKey
                    => /\ Rejects(client, event)
                       /\ store' = store
                       /\ relay'.eventStore = relay.eventStore
    ]_vars

\* A revocation of a grant the store holds, signed by a key that is not the
\* group's, has been answered "restricted: not group key".
CapabilityEventsFromGroupKeyWitness ==
  /\ relayCall.op = "EVENT"
  /\ relayCall.event.kind = REVOKE
  /\ relayCall.event.pubkey = "mallory"
  /\ getTagValue(relayCall.event.tags, "e") # None
  /\ getTagValue(relayCall.event.tags, "e")[1] \in DOMAIN store.capabilities
  /\ sent = << [ to |-> relayCall.client,
                 frame |-> OKFrame(relayCall.event, FALSE, "restricted: not group key") ] >>

\* ---------------------------------------------------------- join requests

LatePublication ==
  [][ \A client \in pool.clients, event \in pool.events :
        ( /\ relayCall' = [op |-> "EVENT", client |-> client, event |-> event]
          /\ isNip29Event(event.kind)
          /\ verifyEvent(event)
          /\ TruthyString(getGroupId(event))
          /\ \/ getGroupId(event)[1] \in DOMAIN relay.groups
             \/ event.kind = MOD_CREATE_GROUP )
        => IF Late(event)
             THEN /\ OnlyAnswer(client, event, FALSE, "invalid: Late publication rejected")
                  /\ relay'.eventStore = relay.eventStore
             ELSE \A k \in 1..Len(sent') :
                    sent'[k].frame.type = "OK"
                      => sent'[k].frame.message # "invalid: Late publication rejected"
    ]_vars

\* A chat message of the member alice, two seconds old under a window of one,
\* has been answered "invalid: Late publication rejected" and is not stored,
\* while a subscription to the group is open.
LatePublicationWitness ==
  /\ relayCall.op = "EVENT"
  /\ relayCall.event.kind = CHAT_MESSAGE
  /\ isMember(relay, "G", relayCall.event.pubkey)
  /\ relay.config.latePublicationWindow = Some(1)
  /\ now - relayCall.event.created_at = 2
  /\ sent = << [ to |-> relayCall.client,
                 frame |-> OKFrame(relayCall.event, FALSE,
                                   "invalid: Late publication rejected") ] >>
  /\ ~EventsHas(relay.eventStore, relayCall.event.id)
  /\ AllSubscriptions(relay.clients) # << >>

\* ------------------------------------------------------------ idempotence

\* C17: an EVENT whose id the relay has already accepted and holds in its
\* event store is answered OK true, and no EVENT frame is sent to any
\* subscriber for it.
IdempotentEvent ==
  [][ \A client \in pool.clients, event \in pool.events :
        ( /\ relayCall' = [op |-> "EVENT", client |-> client, event |-> event]
          /\ EventsHas(relay.eventStore, event.id) )
        => /\ InList(sent', [to |-> client, frame |-> OKFrame(event, TRUE, "")])
           /\ \A k \in 1..Len(sent') : sent'[k].frame.type # "EVENT"
    ]_vars

\* ---------------------------------------------------------- subscriptions

\* The subscriptions of a connected client.
SubscriptionsOf(r, client) ==
  r.clients[CHOOSE k \in 1..Len(r.clients) : r.clients[k].id = client].subscriptions

\* C18: a REQ whose subId is active on the connection is not refused (no
\* CLOSED frame is sent), leaves the number of the connection's subscriptions
\* as it was, and leaves the subscription with the new filters.
ReqReplaces ==
  [][ \A client \in pool.clients, subId \in pool.subIds, filters \in pool.filters :
        ( /\ relayCall' = [ op |-> "REQ", client |-> client, subId |-> subId,
                            filters |-> filters ]
          /\ \E k \in 1..Len(SubscriptionsOf(relay, client)) :
               SubscriptionsOf(relay, client)[k].subId = subId )
        => /\ \A k \in 1..Len(sent') : sent'[k].frame.type # "CLOSED"
           /\ Len(SubscriptionsOf(relay', client)) = Len(SubscriptionsOf(relay, client))
           /\ InList(SubscriptionsOf(relay', client), [subId |-> subId, filters |-> filters])
    ]_vars

\* ----------------------------------------------------------------- queries

\* The filters asked of the store of the query scenario.
QueryFilters ==
  LET chat == Signed(CHAT_MESSAGE, "alice", 0, << << "h", "G" >> >>)
  IN  { [ ids |-> ids, authors |-> authors, kinds |-> kinds, h |-> h, e |-> e,
          p |-> p, since |-> since, until |-> until, limit |-> limit ] :
          ids \in { << >>, << chat.id >> },
          authors \in { << >>, << "alice" >> },
          kinds \in { << >>, << CHAT_MESSAGE >> },
          h \in { << >>, << "G" >>, << "G2" >>, << "G2", "G3" >> },
          e \in { << >>, << chat.id >> },
          p \in { << >>, << "bob" >> },
          since \in { None, Some(1) },
          until \in { None, Some(0) },
          limit \in { None, Some(0), Some(1) } }

\* The event satisfies every clause the filter gives: a listed clause by any
\* of its values, a tag clause by the value of any tag of that name.
Satisfies(event, filter) ==
  /\ filter.ids # << >> => InList(filter.ids, event.id)
  /\ filter.authors # << >> => InList(filter.authors, event.pubkey)
  /\ filter.kinds # << >> => InList(filter.kinds, event.kind)
  /\ filter.h # << >> => \E k \in 1..Len(filter.h) : HasTag(event.tags, << "h", filter.h[k] >>)
  /\ filter.e # << >> => \E k \in 1..Len(filter.e) : HasTag(event.tags, << "e", filter.e[k] >>)
  /\ filter.p # << >> => \E k \in 1..Len(filter.p) : HasTag(event.tags, << "p", filter.p[k] >>)
  /\ filter.since # None => filter.since[1] <= event.created_at
  /\ filter.until # None => event.created_at <= filter.until[1]

\* C19: EventStore.query(filter) returns stored events only, each once, all
\* satisfying the filter, ordered by created_at descending; without a limit
\* above 0 it returns every stored event that satisfies the filter, with one
\* the first limit of them.
QueryReturnsMatches ==
  pool = QueryScenario =>
    \A filter \in QueryFilters :
      LET results == query(relay.eventStore, filter)
          stored == { relay.eventStore.events[k] : k \in 1..Len(relay.eventStore.events) }
          matching == { event \in stored : Satisfies(event, filter) }
          returned == { results[k] : k \in 1..Len(results) }
      IN  /\ returned \subseteq matching
          /\ Cardinality(returned) = Len(results)
          /\ \A j, k \in 1..Len(results) :
               j < k => results[j].created_at >= results[k].created_at
          /\ IF filter.limit # None /\ filter.limit[1] > 0
                  /\ filter.limit[1] < Cardinality(matching)
               THEN /\ Len(results) = filter.limit[1]
                    /\ \A event \in matching \ returned :
                         \A k \in 1..Len(results) :
                           results[k].created_at >= event.created_at
               ELSE returned = matching

\* ----------------------------------------- DKG packages once recorded

\* C21: the commitments recorded in round1Packages for a peer's index are
\* never replaced: a later processRound1Package for the same index with other
\* commitments leaves the recorded ones, in every state.
Round1NeverReplaced ==
  [][ \A p \in DOMAIN dkg :
        \A i \in DOMAIN dkg[p].round1Packages :
          i # dkg[p].config.myIndex
            => /\ i \in DOMAIN dkg'[p].round1Packages
               /\ dkg'[p].round1Packages[i].vssCommitments
                    = dkg[p].round1Packages[i].vssCommitments
    ]_vars

\* --------------------------------------- signing sessions, what they hold

\* C22: a session records public nonces only for indices of signerIndices,
\* and a public nonce once recorded, the signer's own included, is never
\* replaced by another value; so the nonce set does not change once all
\* nonces are present.
NoncesNeverReplaced ==
  [][ \A i \in DOMAIN sign :
        /\ \A idx \in DOMAIN sign'[i].publicNonces :
             Includes(sign'[i].config.signerIndices, idx)
        /\ \A idx \in DOMAIN sign[i].publicNonces :
             /\ idx \in DOMAIN sign'[i].publicNonces
             /\ sign'[i].publicNonces[idx] = sign[i].publicNonces[idx]
    ]_vars

\* C23: in every reachable signing session, partial signatures are held only
\* when a public nonce is recorded for every entry of signerIndices, and a final
\* signature is held only when there is one partial signature per signer and
\* the signature verifies under the group public key.
SigningSessionInvariant ==
  \A i \in DOMAIN sign :
    LET session == sign[i]
        signerIndices == session.config.signerIndices
    IN /\ DOMAIN session.partialSignatures # {}
            => \A k \in 1..Len(signerIndices) :
                 signerIndices[k] \in DOMAIN session.publicNonces
       /\ session.finalSignature # None
            => /\ \A k \in 1..Len(signerIndices) :
                    signerIndices[k] \in DOMAIN session.partialSignatures
               /\ \A idx \in DOMAIN session.partialSignatures :
                    Includes(signerIndices, idx)
               /\ verify_final_sig(session.keyPackage.groupPubkey,
                                   session.config.message, session.finalSignature[1])

\* A session that holds a final signature over the partial signatures of its
\* signers.
SigningSessionInvariantWitness ==
  \E i \in DOMAIN sign :
    /\ sign[i].finalSignature # None
    /\ DOMAIN sign[i].partialSignatures # {}

\* C24: processPartialSignature stores a partial signature only if its index is
\* in signerIndices and it verifies against the public nonce recorded for that
\* index under the session's signing context; a call that fails leaves
\* partialSignatures as it was.
PartialSignatureVerified ==
  [][ signResult'.op = "processPartialSignature"
        => \A i \in DOMAIN sign :
             LET session == sign[i]
                 after == sign'[i].partialSignatures
             IN /\ \A idx \in DOMAIN after :
                      (idx \notin DOMAIN session.partialSignatures
                         \/ session.partialSignatures[idx] # after[idx])
                        => /\ signResult'.error = ""
                           /\ after[idx].idx = idx
                           /\ Includes(session.config.signerIndices, idx)
                           /\ idx \in DOMAIN session.publicNonces
                           /\ verify_partial_sig(SessionCtx(session),
                                                 session.publicNonces[idx],
                                                 after[idx].pubkey, after[idx].psig)
                /\ signResult'.error # ""
                      => after = session.partialSignatures
    ]_vars

\* A session that holds a peer's partial signature and has just refused one
\* that does not verify.
PartialSignatureVerifiedWitness ==
  /\ signResult.op = "processPartialSignature"
  /\ signResult.error = "Invalid partial signature from participant"
  /\ \E i \in DOMAIN sign :
       \E idx \in DOMAIN sign[i].partialSignatures : idx # i

\* ------------------------------------------ DKG sessions, what they hold

\* C25: in every DKG session the keys of round1Packages and of round2Packages
\* lie in 1..n; the own index is in round1Packages once generateRound1Package
\* has run and in round2Packages once generateRound2Packages has returned; the
\* list generateRound2Packages returns holds one package from the own index
\* for each other index, in ascending order, and none for the own index.
DKGSessionData ==
  \A p \in DOMAIN dkg :
    LET session == dkg[p]
        n == session.config.maxSigners
        myIndex == session.config.myIndex
    IN /\ DOMAIN session.round1Packages \subseteq 1..n
       /\ DOMAIN session.round2Packages \subseteq 1..n
       /\ Cardinality(DOMAIN session.round1Packages) <= n
       /\ Cardinality(DOMAIN session.round2Packages) <= n
       /\ session.myRound1Secret # None => myIndex \in DOMAIN session.round1Packages
       /\ ( /\ dkgResult.op = "generateRound2Packages"
            /\ dkgResult.error = "" )
            => LET packages == dkgResult.packages
               IN /\ myIndex \in DOMAIN session.round2Packages
                  /\ Len(packages) = n - 1
                  /\ { packages[k].toIdx : k \in 1..Len(packages) } = (1..n) \ {myIndex}
                  /\ \A k \in 1..Len(packages) : packages[k].fromIdx = myIndex
                  /\ \A k \in 1..(Len(packages) - 1) :
                       packages[k].toIdx < packages[k + 1].toIdx

\* The session of participant 2 of 3 has returned its two Round 2 packages.
DKGSessionDataWitness ==
  /\ dkgResult.op = "generateRound2Packages"
  /\ dkgResult.error = ""
  /\ Len(dkgResult.packages) = 2
  /\ \E p \in DOMAIN dkg :
       /\ p = 2
       /\ dkg[p].config.maxSigners = 3
       /\ DOMAIN dkg[p].round1Packages = 1..3

\* ------------------------------------- refresh with an inconsistent package

\* The share of holder idx in a refresh package.
RefreshShareFor(pkg, idx) ==
  pkg.refreshShares[CHOOSE j \in 1..Len(pkg.refreshShares) :
                      pkg.refreshShares[j].idx = idx]

\* The VSS verification of DKG on a refresh package: the share for idx lies on
\* the polynomial of zero constant term the package commits to.
RefreshShareVerifies(pkg, idx, threshold) ==
  verify_share(<< PointMul(0) >> \o pkg.vssCommitments, RefreshShareFor(pkg, idx),
               threshold)

\* The holder next to p, whose refresh share p may send changed.
NextHolder(p) == (p % refreshConfig.maxSigners) + 1

\* A holder distributes the refresh package it generated with the share of the
\* next holder changed: that share does not lie on the committed polynomial.
\* Holder 1 is the one that does so.
DistributeInconsistent(p) ==
  LET round == holders[p].applied + 1
      generated == generateRefreshShares(holders[p].keyPackage,
                     DrawCoefficients(p, refreshConfig.draw + round,
                                      refreshConfig.threshold - 1))
      changed == [k \in 1..Len(generated.refreshShares) |->
                    IF generated.refreshShares[k].idx = NextHolder(p)
                      THEN [generated.refreshShares[k] EXCEPT
                              !.seckey = bigintToHex(mod_n(hexToBigint(@) + 1))]
                    ELSE generated.refreshShares[k]]
  IN /\ round <= MaxRefreshes
     /\ ~\E x \in refreshPackages : x.round = round /\ x.package.fromIdx = p
     /\ refreshPackages' = refreshPackages \cup
          { [round |-> round, package |-> [generated EXCEPT !.refreshShares = changed]] }
     /\ UNCHANGED << refreshConfig, holders, refreshResult, exceptRefresh >>

RefreshApiNext ==
  \/ \E p \in DOMAIN holders : GenerateRefresh(p)
  \/ DistributeInconsistent(1)
  \/ \E p \in DOMAIN holders : ApplyRefresh(p)

SpecRefreshApi == RefreshInit /\ [][RefreshApiNext]_vars

\* C26: a holder adopts the key package of applyRefreshShares only if the share
\* for it in every refresh package applied verifies against that package's own
\* commitments, so that the share it adopts still verifies against the
\* commitments of the group key.
RefreshSharesVerified ==
  [][ \A p \in DOMAIN holders :
        holders'[p].applied # holders[p].applied
          => /\ \A k \in 1..Len(RoundPackages(holders'[p].applied)) :
                  RefreshShareVerifies(RoundPackages(holders'[p].applied)[k], p,
                                       refreshConfig.threshold)
             /\ verifyRefreshedShare(holders'[p].keyPackage)
    ]_vars

\* ------------------------------------------ what a delegation refers to

\* C27: a delegation validateDelegatedCapability accepts names, in its e tag,
\* the id of the original capability event it was validated against.
DelegationReferenceBinding ==
  ( /\ capCall.op = "validateDelegatedCapability"
    /\ capReturn # NoCall
    /\ capReturn.valid )
  => getTagValue(capCall.delegationEvent.tags, "e")
       = Some(capCall.originalCapabilityEvent.id)

\* ------------------------------------------------- the DKG coordinator

\* DKG_EVENT_KINDS.ROUND1_PACKAGE
ROUND1_PACKAGE == 28001

\* Array.prototype.indexOf: the position counted from 0, or -1.
indexOf(list, x) ==
  IF \E k \in 1..Len(list) : list[k] = x
    THEN (CHOOSE k \in 1..Len(list) :
            list[k] = x /\ \A h \in 1..(k - 1) : list[h] # x) - 1
    ELSE -1

\* [...participantPubkeys].sort(): pubkeys are hex strings of one length, which
\* sort as the numbers they write.
SortPubkeys(participantPubkeys) ==
  Ascending({ participantPubkeys[k] : k \in 1..Len(participantPubkeys) })

\* initiateDKG / joinDKG: the state kept in activeSessions for the session;
\* myIndex is this participant's place in the sorted participants.
initiateDKG(sessionId, threshold, participantPubkeys, mySecretKey, myPubkey) ==
  LET sortedParticipants == SortPubkeys(participantPubkeys)
      myIndex == indexOf(sortedParticipants, myPubkey) + 1
      config == [ threshold |-> threshold, maxSigners |-> Len(participantPubkeys),
                  participants |-> sortedParticipants,
                  myIndex |-> myIndex, mySecretKey |-> mySecretKey ]
  IN [ sessionId |-> sessionId, threshold |-> threshold,
       participants |-> sortedParticipants, myIndex |-> myIndex,
       session |-> createDKGSession(config),
       status |-> "waiting", error |-> None, keyPackage |-> None ]

\* broadcastRound1Package: the event a participant signs for its package.
broadcastRound1Package(sessionId, pkg, signer) ==
  finalizeEvent([ kind |-> ROUND1_PACKAGE, pubkey |-> signer, created_at |-> 0,
                  tags |-> << << "session", sessionId >>,
                              << "idx", ToString(pkg.idx) >>,
                              << "round", "1" >> >>,
                  content |-> JSONstringify(pkg) ], signer)

\* startRound1: the state after it, and the event it publishes.
startRound1(state, coefficients) ==
  LET r == generateRound1Package(state.session, coefficients)
  IN IF r.error # ""
       THEN [ state |-> [state EXCEPT !.error = Some("Round 1 failed"),
                                      !.status = "failed"],
              events |-> {} ]
     ELSE [ state |-> [state EXCEPT !.session = r.session, !.status = "round1"],
            events |-> { broadcastRound1Package(state.sessionId,
                           r.session.round1Packages[state.myIndex],
                           state.participants[state.myIndex]) } ]

\* The Round 1 packages an event may carry for a t-of-n session: each index
\* with the commitments of one of two draws.
Round1Contents(t, n) ==
  { [idx |-> i, vssCommitments |-> get_share_commits(DrawCoefficients(i, d, t))] :
      i \in 1..n, d \in 1..2 }

\* JSON.parse(event.content) for a Round 1 package: None when it throws.
ParseRound1Package(content, t, n) ==
  IF \E pkg \in Round1Contents(t, n) : JSONstringify(pkg) = content
    THEN Some(CHOOSE pkg \in Round1Contents(t, n) : JSONstringify(pkg) = content)
    ELSE None

\* handleRound1Package: the state after it and the Round 2 packages it sends,
\* each with the pubkey of its recipient.  An exception of the try block is
\* caught and logged; state.session was assigned before generateRound2Packages
\* runs.
handleRound1Package(state, event) ==
  LET parsed == ParseRound1Package(event.content, state.threshold,
                                   Len(state.participants))
      pkg == parsed[1]
      processed == processRound1Package(state.session, pkg)
      generated == generateRound2Packages(processed.session)
      list == Round2PackageList(processed.session)
  IN IF parsed = None THEN [state |-> state, sent |-> {}]
     ELSE IF pkg.idx = state.myIndex THEN [state |-> state, sent |-> {}]
     ELSE IF processed.error # "" THEN [state |-> state, sent |-> {}]
     ELSE IF processed.session.state # "round1_complete"
       THEN [state |-> [state EXCEPT !.session = processed.session], sent |-> {}]
     ELSE IF generated.error # ""
       THEN [state |-> [state EXCEPT !.session = processed.session], sent |-> {}]
     ELSE [ state |-> [state EXCEPT !.session = generated.session,
                                    !.status = "round2"],
            sent |-> { [package |-> list[k],
                        recipient |-> state.participants[list[k].toIdx]] :
                       k \in 1..Len(list) } ]

ROUND2_PACKAGE == 28002

COMPLETION == 28003

\* JSON.stringify({ fromIdx, toIdx, encryptedShare }): the fields in the order
\* the object literal names them, the ciphertext as the string it is.
Round2Json(pkg) ==
  JSONstringify(<< << "fromIdx", pkg.fromIdx >>, << "toIdx", pkg.toIdx >>,
                   << "encryptedShare",
                      << pkg.encryptedShare.key, pkg.encryptedShare.payload >> >> >>)

\* broadcastRound2Package: the event a participant signs for a package.
broadcastRound2Package(sessionId, pkg, recipientPubkey, signer) ==
  finalizeEvent([ kind |-> ROUND2_PACKAGE, pubkey |-> signer, created_at |-> 0,
                  tags |-> << << "session", sessionId >>,
                              << "idx", ToString(pkg.fromIdx) >>,
                              << "round", "2" >>,
                              << "p", recipientPubkey >> >>,
                  content |-> Round2Json(pkg) ], signer)

\* broadcastCompletion: the event a participant signs when it has its key.
broadcastCompletion(sessionId, groupPubkey, signer) ==
  finalizeEvent([ kind |-> COMPLETION, pubkey |-> signer, created_at |-> 0,
                  tags |-> << << "session", sessionId >>,
                              << "group_pubkey", ToString(groupPubkey) >> >>,
                  content |-> "" ], signer)

\* The Round 2 packages an event may carry for a t-of-n session: from each
\* index to each other, with the share of one of the draws.
Round2Contents(t, n) ==
  { [ fromIdx |-> i, toIdx |-> j,
      encryptedShare |->
        nip44_encrypt(bigintToHex(evaluatePolynomial(DrawCoefficients(i, d, t), j)),
                      getConversationKey(SecretKeyOf(i), ParticipantPubkey(j))) ] :
      i \in 1..n, j \in 1..n, d \in 1..MaxDraws }

\* JSON.parse(event.content) for a Round 2 package: None when it throws.
ParseRound2Package(content, t, n) ==
  IF \E pkg \in Round2Contents(t, n) : Round2Json(pkg) = content
    THEN Some(CHOOSE pkg \in Round2Contents(t, n) : Round2Json(pkg) = content)
    ELSE None

\* What the catch block of handleRound2Package leaves.
Round2Failed(state) ==
  [state EXCEPT !.error = Some("Round 2 failed"), !.status = "failed"]

\* handleRound2Package: the state after it.  Whatever the try block throws,
\* JSON.parse included, is caught and marks the session failed;
\* state.session is assigned before finalizeDKG runs.
handleRound2Package(state, event, myPubkey) ==
  LET parsed == ParseRound2Package(event.content, state.threshold,
                                   Len(state.participants))
      pkg == parsed[1]
      processed == processRound2Package(state.session, pkg)
      final == finalizeDKG(processed.session)
  IN IF getTagValue(event.tags, "p") # Some(myPubkey) THEN state
     ELSE IF parsed = None THEN Round2Failed(state)
     ELSE IF pkg.fromIdx = state.myIndex THEN state
     ELSE IF processed.error # "" THEN Round2Failed(state)
     ELSE IF processed.session.state # "round2_complete"
       THEN [state EXCEPT !.session = processed.session]
     ELSE IF final.error # ""
       THEN Round2Failed([state EXCEPT !.session = processed.session])
     ELSE [state EXCEPT !.session = final.session,
                        !.keyPackage = final.session.keyPackage,
                        !.status = "complete"]

\* handleDKGEvent: the session the event's session tag names, if it is an
\* active one, handles it by its kind; a COMPLETION is only logged.  sent is
\* the Round 2 packages handleRound1Package sends.
handleDKGEvent(activeSessions, event, myPubkey) ==
  LET sessionId == getTagValue(event.tags, "session")
  IN IF ~TruthyString(sessionId) \/ sessionId[1] \notin DOMAIN activeSessions
       THEN [activeSessions |-> activeSessions, sent |-> {}]
     ELSE IF event.kind = ROUND1_PACKAGE
       THEN LET r == handleRound1Package(activeSessions[sessionId[1]], event)
            IN [ activeSessions |->
                   [activeSessions EXCEPT ![sessionId[1]] = r.state],
                 sent |-> r.sent ]
     ELSE IF event.kind = ROUND2_PACKAGE
       THEN [ activeSessions |->
                [activeSessions EXCEPT ![sessionId[1]] =
                   handleRound2Package(@, event, myPubkey)],
              sent |-> {} ]
     ELSE [activeSessions |-> activeSessions, sent |-> {}]

\* The pubkey of someone who is no participant.
Outsider == ParticipantPubkey(MaxSigners + 1)

\* The Round 1 events on the relay: any participant or the outsider signs any
\* package of Round1Contents; one event names another session and one carries
\* no package.
Round1Events(t, n) ==
  LET signers == { ParticipantPubkey(k) : k \in 1..n } \cup { Outsider }
      own == [idx |-> 1, vssCommitments |-> get_share_commits(DrawCoefficients(1, 1, t))]
  IN { broadcastRound1Package("s1", pkg, signer) :
         pkg \in Round1Contents(t, n), signer \in signers }
     \cup { broadcastRound1Package("s2", own, ParticipantPubkey(1)),
            [broadcastRound1Package("s1", own, ParticipantPubkey(1))
               EXCEPT !.content = ""] }

\* A participant holds the session "s1" of a t-of-n DKG it initiated or
\* joined, given the participants in ascending or in descending order; dkg is
\* the map activeSessions.
CoordinatorInit ==
  \E t \in 2..MaxSigners, n \in 2..MaxSigners, me \in 1..MaxSigners,
     descending \in BOOLEAN :
    /\ t <= n
    /\ me <= n
    /\ LET participantPubkeys ==
             [k \in 1..n |-> ParticipantPubkey(IF descending THEN n + 1 - k ELSE k)]
       IN dkg = [ sessionId \in {"s1"} |->
                    initiateDKG("s1", t, participantPubkeys, SecretKeyOf(me),
                                ParticipantPubkey(me)) ]
    /\ dkgConfig = [threshold |-> t, maxSigners |-> n, draw |-> 1]
    /\ published1 = {}
    /\ published2 = {}
    /\ dkgResult = NoCall
    /\ OnlyDKG

\* The participant starts Round 1 of the session.
StartRound1(sessionId) ==
  LET r == startRound1(dkg[sessionId],
             DrawCoefficients(dkg[sessionId].myIndex, 1, dkgConfig.threshold))
  IN /\ dkg[sessionId].status = "waiting"
     /\ dkg' = [dkg EXCEPT ![sessionId] = r.state]
     /\ published1' = published1 \cup r.events
     /\ dkgResult' = [op |-> "startRound1", before |-> dkg[sessionId].status,
                      error |-> ""]
     /\ UNCHANGED << dkgConfig, published2, exceptDKG >>

\* The subscription delivers a DKG event.
DeliverDKGEvent(event) ==
  LET r == handleDKGEvent(dkg, event,
                          dkg["s1"].participants[dkg["s1"].myIndex])
  IN /\ dkg' = r.activeSessions
     /\ published2' = published2 \cup r.sent
     /\ dkgResult' = [op |-> "handleDKGEvent", before |-> "none", error |-> "",
                      event |-> event]
     /\ UNCHANGED << dkgConfig, published1, exceptDKG >>

CoordinatorNext ==
  \/ \E sessionId \in DOMAIN dkg : StartRound1(sessionId)
  \/ \E event \in Round1Events(dkgConfig.threshold, dkgConfig.maxSigners) :
       DeliverDKGEvent(event)

SpecCoordinator == CoordinatorInit /\ [][CoordinatorNext]_vars

\* C28: the coordinator lets a Round 1 package into round1Packages only if the
\* index it carries is the one the sorted participants give to the pubkey that
\* signed the event carrying it.
IndexPubkeyBinding ==
  [][ dkgResult'.op = "handleDKGEvent"
        => \A sessionId \in DOMAIN dkg :
             LET before == dkg[sessionId].session.round1Packages
                 after == dkg'[sessionId].session.round1Packages
             IN \A idx \in DOMAIN after :
                  (idx \notin DOMAIN before \/ before[idx] # after[idx])
                    => indexOf(dkg[sessionId].participants,
                               dkgResult'.event.pubkey) + 1 = idx
    ]_vars

\* -------------------------------------------------- what an accepted event
\* -------------------------------------------------- sets off

\* C29: when the relay answers an event with a positive OK, every subscription
\* of every connected client with a filter the event satisfies is sent the
\* event once in that dispatch, and a subscription with no such filter is not
\* sent it; for every accepted kind and whatever limit a filter gives.
BroadcastOnAcceptance ==
  [][ \A client \in pool.clients, event \in pool.events :
        ( /\ relayCall' = [op |-> "EVENT", client |-> client, event |-> event]
          /\ InList(sent', [to |-> client, frame |-> OKFrame(event, TRUE, "")]) )
        => \A k \in 1..Len(relay'.clients) :
             \A j \in 1..Len(relay'.clients[k].subscriptions) :
               LET sub == relay'.clients[k].subscriptions[j]
                   frames == { i \in 1..Len(sent') :
                                 sent'[i] = [ to |-> relay'.clients[k].id,
                                              frame |-> EVENTFrame(sub.subId, event) ] }
               IN Cardinality(frames) =
                    IF \E f \in 1..Len(sub.filters) : Satisfies(event, sub.filters[f])
                      THEN 1 ELSE 0
    ]_vars

\* C30: the OK frames a connection gets are sent in the order its EVENT
\* messages arrived: every OK frame is sent while the message it answers (an
\* EVENT, or an AUTH) is handled, to the connection that sent it.  The positive OK of an accepted
\* event is sent when the event is in the store, and before any EVENT frame
\* that carries the event to the same connection.
ReplyOrdering ==
  [][ \A i \in 1..Len(sent') :
        sent'[i].frame.type = "OK"
          => /\ relayCall'.op \in {"EVENT", "AUTH"}
             /\ sent'[i].to = relayCall'.client
             /\ sent'[i].frame.id = relayCall'.event.id
             /\ (relayCall'.op = "EVENT" /\ sent'[i].frame.ok)
                  => /\ relayCall'.event.id \in sentWhen'[i]
                     /\ \A j \in 1..Len(sent') :
                          ( /\ sent'[j].frame.type = "EVENT"
                            /\ sent'[j].to = relayCall'.client
                            /\ sent'[j].frame.event.id = relayCall'.event.id )
                          => i < j
    ]_vars

\* A client with a matching subscription was sent the OK of its event and
\* then the event, as was the other client.
ReplyOrderingWitness ==
  /\ relayCall.op = "EVENT"
  /\ Len(sent) = 3
  /\ sent[1] = [to |-> relayCall.client, frame |-> OKFrame(relayCall.event, TRUE, "")]
  /\ \E j \in 2..3 :
       /\ sent[j].frame.type = "EVENT"
       /\ sent[j].to = relayCall.client
       /\ sent[j].frame.event = relayCall.event
  /\ \E j \in 2..3 : sent[j].to # relayCall.client

\* ------------------------------------------------------- AUTH gating

\* The client record of a connection.
ClientOf(r, client) ==
  r.clients[CHOOSE k \in 1..Len(r.clients) : r.clients[k].id = client]

\* C31: with requireAuth, an EVENT from a connection that has not completed
\* AUTH is answered with OK false "auth-required: please authenticate" and
\* leaves the relay and its capability store as they were; an AUTH message
\* authenticates a connection only with a validly signed event of kind 22242
\* whose challenge tag is the challenge issued to that connection.
AuthGating ==
  [][ \A client \in pool.clients, event \in pool.events :
        /\ ( /\ relayCall' = [op |-> "EVENT", client |-> client, event |-> event]
             /\ relay.config.requireAuth
             /\ ClientOf(relay, client).authedPubkey = None )
           => /\ OnlyAnswer(client, event, FALSE, "auth-required: please authenticate")
              /\ relay' = relay
              /\ store' = store
        /\ ( /\ relayCall' = [op |-> "AUTH", client |-> client, event |-> event]
             /\ ClientOf(relay', client).authedPubkey # ClientOf(relay, client).authedPubkey )
           => /\ verifyEvent(event)
              /\ event.kind = AUTH_EVENT
              /\ getTagValue(event.tags, "challenge") = ClientOf(relay, client).authChallenge
              /\ ClientOf(relay, client).authChallenge = Some(generateChallenge(client))
              /\ ClientOf(relay', client).authedPubkey = Some(event.pubkey)
        /\ relayCall'.op \in {"EVENT", "AUTH"}
             => \A other \in pool.clients :
                  (other # relayCall'.client /\ Connected(other))
                    => ClientOf(relay', other).authedPubkey
                         = ClientOf(relay, other).authedPubkey
    ]_vars

\* With requireAuth, a connection that completed AUTH had its chat message
\* stored, while the other connection is still not authenticated.
AuthGatingWitness ==
  /\ relay # << >>
  /\ relay.config.requireAuth
  /\ relayCall.op = "EVENT"
  /\ Len(sent) >= 1
  /\ sent[1] = [to |-> relayCall.client, frame |-> OKFrame(relayCall.event, TRUE, "")]
  /\ ClientOf(relay, relayCall.client).authedPubkey # None
  /\ \E other \in pool.clients :
       Connected(other) /\ ClientOf(relay, other).authedPubkey = None

\* ------------------------------------------- the chat client's RelayConnection
\* packages/chat/src/relay.ts.  One RelayConnection, the WebSockets it creates,
\* the timers it sets and the promises publish() hands out.  A socket is a
\* record with its readyState; conn.ws is its index in sockets, 0 for null.
\* A promise is [id, state, reason, timeout]: the event id it was made for,
\* how it settled, and the state of its 5 s timer.

\* The sockets a run may create and the publish() calls it may make.
MaxSockets == 2

MaxPublishes == 2

maxReconnectAttempts == 5

EventIds == {"e1", "e2"}

\* The message of an OK false the relay sends; "" when it sends none.
OkMessages == {"", "restricted: not authorized"}

\* new RelayConnection(url)
NewRelayConnection ==
  [ ws |-> 0, pendingPublish |-> EmptyMap, pendingMessages |-> << >>,
    reconnectTimeout |-> None, reconnectAttempts |-> 0, connected |-> FALSE ]

ClientWorld ==
  [ conn |-> conn, sockets |-> sockets, wire |-> wire, timers |-> timers,
    promises |-> promises ]

\* resolve() and reject() of a promise: only the first call settles it.
Settle(promise, state, reason) ==
  IF promise.state = "pending"
    THEN [promise EXCEPT !.state = state, !.reason = reason]
    ELSE promise

\* clearTimeout: a timer that fired or was cleared stays as it is.
clearTimeout(timer) == IF timer = "set" THEN "cleared" ELSE timer

\* RelayConnection.connect
connect(c) ==
  IF c.conn.ws # 0 /\ c.sockets[c.conn.ws].readyState = "OPEN"
    THEN c
    ELSE [c EXCEPT !.sockets = Append(@, [readyState |-> "CONNECTING"]),
                   !.conn.ws = Len(c.sockets) + 1]

\* RelayConnection.isConnected
isConnected(c) ==
  /\ c.conn.connected
  /\ c.conn.ws # 0
  /\ c.sockets[c.conn.ws].readyState = "OPEN"

\* WebSocket.send of this.ws for each message of a list: an OPEN socket
\* carries it, a CLOSING or CLOSED one discards it.
SocketSend(c, ids) ==
  IF c.sockets[c.conn.ws].readyState = "OPEN"
    THEN [c EXCEPT !.wire =
            @ \o [k \in 1..Len(ids) |-> [socket |-> c.conn.ws, id |-> ids[k]]]]
    ELSE c

\* RelayConnection.send of ["EVENT", event]
RelayConnection_send(c, id) ==
  IF isConnected(c)
    THEN SocketSend(c, << id >>)
    ELSE [c EXCEPT !.conn.pendingMessages = Append(@, id)]

\* The onopen handler connect() installs.  this.ws?.send skips a null ws and
\* throws on a socket that is still CONNECTING, which ends the handler.
onopen(c) ==
  LET opened == [c EXCEPT !.conn.connected = TRUE,
                          !.conn.reconnectAttempts = 0]
      flushed == [opened EXCEPT !.conn.pendingMessages = << >>]
  IN  IF opened.conn.pendingMessages = << >> \/ opened.conn.ws = 0
        THEN flushed
        ELSE IF opened.sockets[opened.conn.ws].readyState = "CONNECTING"
          THEN opened
          ELSE [SocketSend(opened, opened.conn.pendingMessages)
                  EXCEPT !.conn.pendingMessages = << >>]

\* RelayConnection.scheduleReconnect
scheduleReconnect(c) ==
  IF c.conn.reconnectAttempts >= maxReconnectAttempts
    THEN c
    ELSE [c EXCEPT !.timers = Append(@, "set"),
                   !.conn.reconnectTimeout = Some(Len(c.timers) + 1)]

\* The onclose handler connect() installs.
onclose(c) == scheduleReconnect([c EXCEPT !.conn.connected = FALSE])

\* The callback of the timer scheduleReconnect sets.
reconnectCallback(c) == connect([c EXCEPT !.conn.reconnectAttempts = @ + 1])

\* RelayConnection.disconnect
disconnect(c) ==
  LET cleared ==
        IF c.conn.reconnectTimeout # None
          THEN [c EXCEPT !.timers[c.conn.reconnectTimeout[1]] = clearTimeout(@),
                         !.conn.reconnectTimeout = None]
          ELSE c
      closed ==
        IF cleared.conn.ws # 0
          THEN [cleared EXCEPT
                  !.sockets[cleared.conn.ws].readyState =
                     IF @ \in {"CONNECTING", "OPEN"} THEN "CLOSING" ELSE @,
                  !.conn.ws = 0]
          ELSE cleared
  IN  [closed EXCEPT !.conn.connected = FALSE]

\* RelayConnection.publish
publish(c, id) ==
  IF ~isConnected(c)
    THEN [c EXCEPT !.conn.pendingMessages = Append(@, id),
                   !.promises = Append(@, [id |-> id, state |-> "resolved",
                                           reason |-> "", timeout |-> "none"])]
    ELSE RelayConnection_send(
           [c EXCEPT !.promises = Append(@, [id |-> id, state |-> "pending",
                                             reason |-> "", timeout |-> "set"]),
                     !.conn.pendingPublish =
                        MapSet(@, id, Len(c.promises) + 1)],
           id)

\* The callback of the timer publish() sets for promise p.
publishTimeout(c, p) ==
  [c EXCEPT !.conn.pendingPublish = MapDelete(@, c.promises[p].id),
            !.promises[p] =
               Settle([@ EXCEPT !.timeout = "fired"], "rejected",
                      "Publish timeout")]

\* RelayConnection.handleOk
handleOk(c, eventId, success, message) ==
  IF eventId \in DOMAIN c.conn.pendingPublish
    THEN LET p == c.conn.pendingPublish[eventId]
         IN  [c EXCEPT !.promises[p] =
                          Settle([@ EXCEPT !.timeout = clearTimeout(@)],
                                 IF success THEN "resolved" ELSE "rejected",
                                 IF success THEN ""
                                 ELSE IF message # "" THEN message
                                 ELSE "Event rejected"),
                       !.conn.pendingPublish = MapDelete(@, eventId)]
    ELSE c

ClientInit ==
  /\ conn = NewRelayConnection
  /\ sockets = << >>
  /\ wire = << >>
  /\ timers = << >>
  /\ promises = << >>
  /\ intent = "none"
  /\ clientCall = NoCall
  /\ DKGIdle /\ SignIdle /\ RefreshIdle /\ CapIdle /\ RelayIdle /\ NetIdle

exceptClient == << dkgVars, signVars, refreshVars, capVars, relayVars, inbox >>

\* A message event is dispatched only while the socket is OPEN: what was sent
\* on a socket that has left that state is never answered.
Answerable(c) ==
  SelectSeq(c.wire, LAMBDA m : c.sockets[m.socket].readyState = "OPEN")

ClientDone(c, call) ==
  /\ conn' = c.conn
  /\ sockets' = c.sockets
  /\ wire' = Answerable(c)
  /\ timers' = c.timers
  /\ promises' = c.promises
  /\ clientCall' = call
  /\ UNCHANGED exceptClient

\* Whether connect() would create a socket.
CreatesSocket(c) ==
  ~(c.conn.ws # 0 /\ c.sockets[c.conn.ws].readyState = "OPEN")

\* The application calls connect().
CallConnect ==
  /\ CreatesSocket(ClientWorld) => Len(sockets) < MaxSockets
  /\ intent' = "connect"
  /\ ClientDone(connect(ClientWorld), [op |-> "connect"])

\* The application calls disconnect().
CallDisconnect ==
  /\ intent' = "disconnect"
  /\ ClientDone(disconnect(ClientWorld), [op |-> "disconnect"])

\* The application calls publish(event): an event it published before, or a
\* new one, which takes the first unused id.
CallPublish(id) ==
  /\ Len(promises) < MaxPublishes
  /\ id = "e2" => \E p \in DOMAIN promises : promises[p].id = "e1"
  /\ UNCHANGED intent
  /\ ClientDone(publish(ClientWorld, id),
                [op |-> "publish", id |-> id])

\* A connecting socket opens.
SocketOpens(s) ==
  /\ sockets[s].readyState = "CONNECTING"
  /\ UNCHANGED intent
  /\ ClientDone(onopen([ClientWorld EXCEPT !.sockets[s].readyState = "OPEN"]),
                [op |-> "open"])

\* A socket closes: the close disconnect() asked for, or the network's.
SocketCloses(s) ==
  /\ sockets[s].readyState # "CLOSED"
  /\ UNCHANGED intent
  /\ ClientDone(onclose([ClientWorld EXCEPT !.sockets[s].readyState = "CLOSED"]),
                [op |-> "close"])

\* The relay answers the oldest EVENT it was sent: onmessage, handleMessage
\* and its case "OK".
OkArrives(success, message) ==
  /\ wire # << >>
  /\ success => message = ""
  /\ UNCHANGED intent
  /\ ClientDone(handleOk([ClientWorld EXCEPT !.wire = Tail(@)],
                         Head(wire).id, success, message),
                [op |-> "OK", id |-> Head(wire).id, success |-> success,
                 message |-> message])

\* The 5 s timer of a publish fires; the timers fire in the order they
\* were set.
PublishTimerFires(p) ==
  /\ promises[p].timeout = "set"
  /\ \A q \in 1..(p - 1) : promises[q].timeout # "set"
  /\ UNCHANGED intent
  /\ ClientDone(publishTimeout(ClientWorld, p),
                [op |-> "publishTimeout"])

\* A reconnect timer fires.
ReconnectTimerFires(t) ==
  /\ timers[t] = "set"
  /\ LET fired == [ClientWorld EXCEPT !.timers[t] = "fired"]
     IN  /\ CreatesSocket(fired) => Len(sockets) < MaxSockets
         /\ UNCHANGED intent
         /\ ClientDone(reconnectCallback(fired),
                       [op |-> "reconnect"])

ClientNext ==
  \/ CallConnect
  \/ CallDisconnect
  \/ \E id \in EventIds : CallPublish(id)
  \/ \E s \in DOMAIN sockets : SocketOpens(s)
  \/ \E s \in DOMAIN sockets : SocketCloses(s)
  \/ \E success \in BOOLEAN, message \in OkMessages : OkArrives(success, message)
  \/ \E p \in DOMAIN promises : PublishTimerFires(p)
  \/ \E t \in DOMAIN timers : ReconnectTimerFires(t)

SpecClient == ClientInit /\ [][ClientNext]_vars

\* What handleOk settles a promise with for an OK frame.
OkOutcome(success, message) ==
  IF success THEN [state |-> "resolved", reason |-> ""]
  ELSE [state |-> "rejected",
        reason |-> IF message # "" THEN message ELSE "Event rejected"]

\* The publishes of an event id that were issued while connected and have
\* not settled.
Waiting(id) ==
  { p \in DOMAIN promises : promises[p].id = id /\ promises[p].state = "pending" }

\* C32: a publish issued while connected settles once, by the OK for its
\* event id or by its 5 s timeout.  An OK that arrives while a publish of its
\* event id is pending settles such a publish, resolved on true and rejected
\* with the relay's message on false, also when the id was published twice; a
\* promise that settled does not change again, and once it settled its
\* pendingPublish entry and its timer are gone.
PublishSettlement ==
  [][ /\ ( clientCall'.op = "OK" /\ Waiting(clientCall'.id) # {} )
           => \E p \in Waiting(clientCall'.id) :
                /\ promises'[p].state =
                     OkOutcome(clientCall'.success, clientCall'.message).state
                /\ promises'[p].reason =
                     OkOutcome(clientCall'.success, clientCall'.message).reason
      /\ \A p \in DOMAIN promises :
           promises[p].state # "pending" => promises'[p] = promises[p]
      /\ \A p \in DOMAIN promises' :
           promises'[p].state # "pending"
             => /\ promises'[p].timeout # "set"
                /\ \A id \in DOMAIN conn'.pendingPublish :
                     conn'.pendingPublish[id] # p
    ]_vars

\* ------------------------------------------------ capabilities and groups

\* C33: a chat or note event addressed to an existing group by a connection
\* that may publish, whose author is no member of that group and holds no capability issued by that group's
\* key, is answered OK false "restricted: not authorized" and is not stored,
\* whatever capabilities other groups' keys granted the author.
CapabilityGroupScope ==
  [][ \A client \in pool.clients, event \in pool.events :
        ( /\ relayCall' = [op |-> "EVENT", client |-> client, event |-> event]
          /\ event.kind \in ChatKinds
          /\ verifyEvent(event)
          /\ relay.config.requireAuth => ClientOf(relay, client).authedPubkey # None
          /\ TruthyString(getGroupId(event))
          /\ getGroupId(event)[1] \in DOMAIN relay.groups
          /\ ~Late(event)
          /\ ~isMember(relay, getGroupId(event)[1], event.pubkey)
          /\ \A id \in DOMAIN store.capabilities :
               store.capabilities[id].capability.holder = event.pubkey
                 => store.capabilities[id].capability.issuer
                      # relay.groups[getGroupId(event)[1]].pubkey )
        => /\ OnlyAnswer(client, event, FALSE, "restricted: not authorized")
           /\ relay'.eventStore = relay.eventStore
    ]_vars

\* C34: a revocation the relay accepts leaves every capability whose issuer is
\* not the key that signed the revocation as it was: still in the store and
\* not marked revoked.
RevocationGroupScope ==
  [][ \A client \in pool.clients, event \in pool.events :
        ( /\ relayCall' = [op |-> "EVENT", client |-> client, event |-> event]
          /\ event.kind = REVOKE
          /\ Accepts(client, event) )
        => \A id \in DOMAIN store.capabilities :
             store.capabilities[id].capability.issuer # event.pubkey
               => /\ id \in DOMAIN store'.capabilities
                  /\ store'.capabilities[id] = store.capabilities[id]
                  /\ id \notin store'.revokedIds
    ]_vars

\* ------------------------------------------------ relay-generated metadata

\* C35: an event of a relay metadata kind (39000 to 39003) that a client
\* submits, signed by a user's or a group's key, is not stored, is not
\* answered with a positive OK and is sent to no subscription.
RelayMetadataReserved ==
  [][ \A client \in pool.clients, event \in pool.events :
        ( /\ relayCall' = [op |-> "EVENT", client |-> client, event |-> event]
          /\ isRelayMetadataEvent(event.kind) )
        => /\ relay'.eventStore = relay.eventStore
           /\ \A i \in 1..Len(sent') :
                /\ sent'[i].frame # OKFrame(event, TRUE, "")
                /\ sent'[i].frame.type # "EVENT"
    ]_vars

\* ------------------------------------------- the DKG of n chat coordinators
\* Every participant runs the coordinator of packages/chat/src/relay.ts on the
\* session "s1" and has started Round 1; the relay delivers every event
\* published for the session to every participant, in any order.  dkg maps a
\* participant to its activeSessions.  inbox keeps the deliveries whose
\* handler reaches the session: a Round 1 package to every participant, its
\* author included, and a Round 2 package to the participant its p tag names.
\* From a Round 2 package with another p tag and from a COMPLETION
\* handleDKGEvent returns with nothing read or written.

\* The participants of a session.
MaxParticipants == 2

NetworkInit ==
  \E t \in 2..MaxParticipants, n \in 2..MaxParticipants, d \in 1..MaxDraws :
    LET participantPubkeys == [k \in 1..n |-> ParticipantPubkey(k)]
        started(i) ==
          startRound1(initiateDKG("s1", t, participantPubkeys, SecretKeyOf(i),
                                  ParticipantPubkey(i)),
                      DrawCoefficients(i, d, t))
    IN /\ t <= n
       /\ dkgConfig = [threshold |-> t, maxSigners |-> n, draw |-> d]
       /\ dkg = [i \in 1..n |-> [sessionId \in {"s1"} |-> started(i).state]]
       /\ published1 = UNION { started(i).events : i \in 1..n }
       /\ published2 = {}
       /\ inbox = [i \in 1..n |-> UNION { started(j).events : j \in 1..n }]
       /\ dkgResult = NoCall
       /\ SignIdle /\ RefreshIdle /\ CapIdle /\ RelayIdle /\ ClientIdle

\* Whether the handler of participant j gets as far as the session.
ReachesSession(j, event) ==
  \/ event.kind = ROUND1_PACKAGE
  \/ /\ event.kind = ROUND2_PACKAGE
     /\ getTagValue(event.tags, "p") = Some(ParticipantPubkey(j))

\* What handleDKGEvent leaves of participant i's sessions and what it
\* publishes: the Round 2 packages, or the completion.
Delivered(i, event) ==
  LET r == handleDKGEvent(dkg[i], event, ParticipantPubkey(i))
      after == r.activeSessions["s1"]
  IN [ activeSessions |-> r.activeSessions,
       events |->
         { broadcastRound2Package("s1", s.package, s.recipient,
                                  ParticipantPubkey(i)) : s \in r.sent }
         \cup IF dkg[i]["s1"].status # "complete" /\ after.status = "complete"
                THEN { broadcastCompletion("s1", after.keyPackage[1].groupPubkey,
                                           ParticipantPubkey(i)) }
                ELSE {} ]

\* The relay delivers an event to participant i: handleDKGEvent runs, and what
\* it publishes goes to the relay and from there to every participant.
Deliver(i, event) ==
  /\ event \in inbox[i]
  /\ \E r \in { Delivered(i, event) } :
       /\ dkg' = [dkg EXCEPT ![i] = r.activeSessions]
       /\ published2' = published2 \cup r.events
       /\ inbox' = [ j \in DOMAIN inbox |->
                       (IF j = i THEN inbox[j] \ {event} ELSE inbox[j])
                         \cup { e \in r.events : ReachesSession(j, e) } ]
  /\ dkgResult' = [op |-> "deliver", before |-> dkg[i]["s1"].status, error |-> ""]
  /\ UNCHANGED << dkgConfig, published1, signVars, refreshVars, capVars,
                  relayVars, clientVars >>

NetworkNext ==
  \E i \in DOMAIN inbox : \E event \in inbox[i] : Deliver(i, event)

SpecDKGNetwork == NetworkInit /\ [][NetworkNext]_vars

\* Every participant has its KeyPackage, and all name one group pubkey.
AllComplete ==
  \A i \in DOMAIN dkg :
    /\ dkg[i]["s1"].status = "complete"
    /\ dkg[i]["s1"].keyPackage # None
    /\ \A j \in DOMAIN dkg :
         dkg[j]["s1"].keyPackage # None
           => dkg[j]["s1"].keyPackage[1].groupPubkey
                = dkg[i]["s1"].keyPackage[1].groupPubkey

\* The relay has delivered every event to every participant.
AllDelivered == \A i \in DOMAIN inbox : inbox[i] = {}

\* C36: when every participant has started Round 1 and the relay delivers
\* every event of the session to every participant, in whatever order, every
\* participant ends with its KeyPackage and status complete, all with the same
\* group pubkey.  A run makes finitely many deliveries, so it is stated of the
\* state in which all are made; and no delivery on the way, a Round 2 package
\* that arrives before its recipient has every Round 1 package included,
\* marks a session failed.
DKGCompletesOnceDelivered ==
  /\ \A i \in DOMAIN dkg : dkg[i]["s1"].status # "failed"
  /\ AllDelivered => AllComplete

\* ------------------------------------------ signer lists with repetitions

\* The distinct indices of the session's signer list.
DistinctSigners(session) ==
  { session.config.signerIndices[k] : k \in 1..Len(session.config.signerIndices) }

\* C37: a signing session whose signer list names fewer distinct indices than
\* the key's threshold, which createSigningSession accepts when repetitions
\* bring the list to the threshold's length, never has all nonces, and so no
\* partial signature is generated or stored in it and no final signature is
\* produced.
DistinctSignerThreshold ==
  \A i \in DOMAIN sign :
    Cardinality(DistinctSigners(sign[i])) < sign[i].keyPackage.threshold
      => /\ ~hasAllNonces(sign[i])
         /\ DOMAIN sign[i].partialSignatures = {}
         /\ sign[i].finalSignature = None
         /\ publishedPartials = {}

\* A session on a list of one index written twice holds the nonce of that
\* index, and generatePartialSignature has just refused.
DistinctSignerThresholdWitness ==
  \E i \in DOMAIN sign :
    /\ Cardinality(DistinctSigners(sign[i])) < sign[i].keyPackage.threshold
    /\ DOMAIN sign[i].publicNonces = DistinctSigners(sign[i])
    /\ signResult.op = "generatePartialSignature"
    /\ signResult.error = "Not all nonce commitments received"

\* ------------------------------------------------- what a rejection leaves

\* The relay answered the client's event with a negative OK.
Rejected(client, event) ==
  \E i \in 1..Len(sent') :
    /\ sent'[i].to = client
    /\ sent'[i].frame.type = "OK"
    /\ sent'[i].frame.id = event.id
    /\ ~sent'[i].frame.ok

\* C38: an EVENT message the relay answers with OK false leaves the event
\* store, the capability store with its revoked ids, and the admins and
\* members of every group as they were, and no EVENT frame is sent to any
\* subscription.
RejectionHasNoEffect ==
  [][ \A client \in pool.clients, event \in pool.events :
        ( /\ relayCall' = [op |-> "EVENT", client |-> client, event |-> event]
          /\ Rejected(client, event) )
        => /\ relay'.eventStore = relay.eventStore
           /\ store' = store
           /\ relay'.admins = relay.admins
           /\ relay'.members = relay.members
           /\ \A i \in 1..Len(sent') : sent'[i].frame.type # "EVENT"
    ]_vars

\* An event was rejected while the relay held events, capabilities, members
\* and a subscription its group filter matches.
RejectionHasNoEffectWitness ==
  /\ relayCall.op = "EVENT"
  /\ \E i \in 1..Len(sent) : sent[i].frame.type = "OK" /\ ~sent[i].frame.ok
  /\ relay.eventStore.events # << >>
  /\ \E k \in 1..Len(relay.clients) : relay.clients[k].subscriptions # << >>

\* ------------------------------------------------------ one OK per EVENT

\* The OK frames the relay sent for an event while handling the last message.
OKFramesFor(event) ==
  { i \in 1..Len(sent') : sent'[i].frame.type = "OK" /\ sent'[i].frame.id = event.id }

\* C39: while the relay handles an EVENT message it sends exactly one OK frame
\* for the event, to the connection that sent it, whichever path the handling
\* takes.
OneOKPerEvent ==
  [][ \A client \in pool.clients, event \in pool.events :
        relayCall' = [op |-> "EVENT", client |-> client, event |-> event]
          => /\ Cardinality(OKFramesFor(event)) = 1
             /\ \A i \in OKFramesFor(event) : sent'[i].to = client
    ]_vars


\* C40: after the application called disconnect(), and until it calls
\* connect() again, the client schedules no reconnection and makes no
\* connection attempt: no step sets a timer or creates a socket.
ExplicitDisconnectFinal ==
  [][ (intent = "disconnect" /\ intent' = "disconnect")
        => /\ Len(timers') = Len(timers)
           /\ Len(sockets') = Len(sockets) ]_vars

============================================================================
